---- MODULE Spec2Model ----
(***************************************************************************)
(* The arbiter-core Environment: one worker thread that owns the EVM and   *)
(* serially consumes Instructions from an unbounded channel, the clients   *)
(* (connections) that submit instructions and wait on their outcome        *)
(* channel, and Environment::stop.                                         *)
(*                                                                         *)
(* Integer widths are scaled down: a u64 has U64Bits bits and a U256 has   *)
(* U256Bits bits, so that values beyond u64::MAX and the wrap of a U256    *)
(* are reachable with small numbers.                                       *)
(*                                                                         *)
(* The EVM interpreter (revm) is a library: what transact/transact_commit  *)
(* return for a transaction is an input carried by the tx_env (exec,       *)
(* gas_used), and its effect on the database is the nonce of the caller.   *)
(*                                                                         *)
(* The initial state is the one the tests start from: the environment is   *)
(* built and the client c1 is constructed, so its address is registered.   *)
(***************************************************************************)
EXTENDS Integers, Sequences, FiniteSets, TLC

\* ------------------------------------------------------------------ bounds

\* Instructions sent in one run by callers that take turns (one driver thread, as in
\* the tests), and by callers that run concurrently.
MaxInstr == 4
MaxConc == 3
\* Scaled widths of u64 and U256.
U64Bits == 4
U256Bits == 12
\* Scaled size of the broadcast channel (512 messages in the source).
Capacity == 2
\* The longest list of logs an agent reads at once, and of filters it holds.
MaxLogs == 2
MaxFilters == 2

RECURSIVE Pow2(_)
Pow2(n) == IF n = 0 THEN 1 ELSE 2 * Pow2(n - 1)

U64_MAX == Pow2(U64Bits) - 1
U256_MAX == Pow2(U256Bits) - 1

\* ------------------------------------------------------------------ values

Addr == {"A1", "A2"}
Key == {"K1", "K2"}
Clients == {"c1", "c2"}
Tasks == {"t1", "t2", "t3"}
\* The channel Environment::stop makes for its Stop instruction.
EnvChan == "env"
\* A reply channel whose receiver is dropped: a send on it fails.
Gone == "gone"

\* Two tasks share the connection of c1; the third uses c2.
ClientOf(t) == IF t = "t3" THEN "c2" ELSE "c1"
\* The address of the wallet of a client.
AddressOf(c) == IF c = "c1" THEN "A1" ELSE "A2"

\* The storage of an account is a map from the keys written so far.
EmptyStorage == [k \in {} |-> 0]
NoAccount == [exists |-> FALSE, balance |-> 0, nonce |-> 0, storage |-> EmptyStorage]
\* DbAccount { info: AccountInfo::default(), account_state: None, storage: HashMap::new() }
DefaultAccount == [exists |-> TRUE, balance |-> 0, nonce |-> 0, storage |-> EmptyStorage]

\* TransactTo::Call(address) and TransactTo::Create(CreateScheme::Create)
TransactToCall(address) == [kind |-> "Call", address |-> address]
TransactToCreate == [kind |-> "Create"]

NoTx == [caller |-> "A1", gas_price |-> 0, exec |-> "None", gas_used |-> 0,
         transact_to |-> TransactToCall("A2")]
NoReceipt == [block_number |-> 0, transaction_index |-> 0, cumulative_gas_per_block |-> 0]
NoResult == [kind |-> "None", gas_used |-> 0, logs |-> <<>>, output |-> [kind |-> "None"]]

\* ------------------------------------------------------------------ state

VARIABLES
    accounts,                  \* evm.context.evm.db: address -> account
    block_number,              \* evm.block().number (a U256)
    block_timestamp,           \* evm.block().timestamp
    gas_price,                 \* evm.tx().gas_price
    transaction_index,         \* the worker's counter (a U64)
    cumulative_gas_per_block,  \* the worker's counter (a U256)
    worker,                    \* "running", "stopped" (after Stop), "failed" (returned Err or panicked)
    queue,                     \* the instruction channel
    chan,                      \* outcome channels: one per connection, one for Environment::stop
    bus,                       \* what the worker has sent on the event broadcaster
    tasks,                     \* the callers: whether each waits, and for which instruction
    got,                       \* the last outcome a caller took from its channel
    mode,                      \* how the callers run: "sequential" or "concurrent"
    env,                       \* the Environment object: "built", "stopping", "dropped"
    nextId,                    \* the number of instructions sent so far, plus one
    last,                      \* what the worker did in its last step
    blockGas,                  \* gas_used of the transactions committed in the current block, in order
    receivers,                 \* the subscribers of the event broadcaster and what each has yet to read
    parameters,                \* the EnvironmentParameters the environment was built with
    agent,                     \* a SimpleArbitrageur: its event filters, the logs it read, what it kept
    clients,                   \* the RevmMiddleware constructions so far: seed, address, how each ended
    heap,                      \* the databases allocated for further environments (Arc<RwLock<CacheDB>>)
    environments,              \* further environments built beside this one, each with its db handle
    conversion,                \* a call of convert_uint_to_u64: its input and what it returned
    engine,                    \* an Engine: its behavior, processor and event stream, what it ran
    connection,                \* a client's filter_receivers and the senders it gave the broadcaster
    world                      \* TimedMessage behaviors, the messages sent and what each has yet to read

evmState == <<accounts, block_number, block_timestamp, gas_price>>
counters == <<transaction_index, cumulative_gas_per_block>>
vars == <<accounts, block_number, block_timestamp, gas_price, transaction_index,
          cumulative_gas_per_block, worker, queue, chan, bus, tasks, got, mode,
          env, nextId, last, blockGas, receivers, parameters, agent, clients, heap,
          environments, conversion, engine, connection, world>>

\* What no step of the worker, of a client or of Environment::stop touches.
elsewhere == <<parameters, agent, clients, heap, environments, conversion, engine, connection,
               world>>

\* ------------------------------------------------------------------ helpers

RECURSIVE Digits(_)
Digits(n) == IF n < 10 THEN <<n>> ELSE Append(Digits(n \div 10), n % 10)
\* U256::to_string: the decimal digits of n.
to_string(n) == Digits(n)

RECURSIVE FromDigits(_)
FromDigits(s) == IF s = <<>> THEN 0 ELSE 10 * FromDigits(SubSeq(s, 1, Len(s) - 1)) + s[Len(s)]

\* A conversion that keeps the low 64 bits of its input.
convert_truncating(input) == [ok |-> TRUE, val |-> input % (U64_MAX + 1)]

\* str::parse::<u64> on the decimal string of the input: an error beyond u64::MAX.
convert_uint_to_u64(input) ==
    LET as_str == to_string(input)
        val == FromDigits(as_str)
    IN  IF val <= U64_MAX THEN [ok |-> TRUE, val |-> val] ELSE [ok |-> FALSE, val |-> 0]

RECURSIVE Sum(_)
Sum(s) == IF s = <<>> THEN 0 ELSE s[1] + Sum(Tail(s))

Instr(kind, a, x, y, tx) == [kind |-> kind, a |-> a, x |-> x, y |-> y, tx |-> tx]

Outcome(id, kind, err, val, result, receipt) ==
    [id |-> id, kind |-> kind, err |-> err, val |-> val, result |-> result, receipt |-> receipt]

Ok(id, kind, val) == Outcome(id, kind, "None", val, NoResult, NoReceipt)
Err(id, err) == Outcome(id, "Error", err, <<>>, NoResult, NoReceipt)

NoOutcome == Outcome(0, "None", "None", <<>>, NoResult, NoReceipt)

\* The worker's last step: the instruction it took, what it sent and in which order
\* ("event", "stop_signal" on the broadcaster; "reply" on the outcome channel), the
\* outcome it replied and the logs it published.
Step(ins, sends, outcome, logs) ==
    [id |-> ins.id, kind |-> ins.kind, ins |-> ins, sends |-> sends, outcome |-> outcome,
     logs |-> logs]
\* What a caller took from its channel: the caller, the instruction it had sent, and
\* the outcome.
NoneGot == [task |-> "none", id |-> 0, outcome |-> NoOutcome]

NoStep == [id |-> 0, kind |-> "None", ins |-> <<>>, sends |-> <<>>, outcome |-> NoOutcome,
           logs |-> <<>>]

\* ------------------------------------------------------------------ inputs

\* The tx_envs a client sends: the caller is its own address, and what the interpreter
\* makes of the transaction (exec, gas_used) is part of the input.
TxEnv(c, price, exec, gas_used) ==
    [caller |-> AddressOf(c), gas_price |-> price, exec |-> exec, gas_used |-> gas_used,
     transact_to |-> TransactToCall("A2")]

\* The tx_env of a transaction without a `to` address: a deploy.
Deploy(c, price, exec, gas_used) ==
    [TxEnv(c, price, exec, gas_used) EXCEPT !.transact_to = TransactToCreate]

\* What each caller sends. t1 transacts, calls and moves the block; t2, on the same
\* connection, queries, sets the gas price and applies cheatcodes; t3 constructs a
\* client (RevmMiddleware::new sends AddAccount for the address of its seed: the
\* seed of c1 again, or another one). send_transaction fills the gas price of its
\* tx_env with the answer of get_gas_price, here the price at the time of sending;
\* call sends the price zero.
Instructions(t) ==
    CASE t = "t1" ->
            { Instr("Transaction", "A1", 0, 0, TxEnv(ClientOf(t), gas_price, "Success", g)) : g \in {1, 2} }
            \cup { Instr("Transaction", "A1", 0, 0, TxEnv(ClientOf(t), gas_price, e, 1)) : e \in {"Revert", "Err"} }
            \cup { Instr("Call", "A1", 0, 0, TxEnv(ClientOf(t), 0, e, 1)) : e \in {"Success", "Revert", "Err"} }
            \cup { Instr("BlockUpdate", "A1", n, 100, NoTx) : n \in {1, U64_MAX + 1} }
      [] t = "t2" ->
            { Instr(q, "A1", 0, 0, NoTx) : q \in {"BlockNumber", "BlockTimestamp", "GasPrice"} }
            \cup { Instr("Balance", a, 0, 0, NoTx) : a \in Addr }
            \cup { Instr("TransactionCount", "A1", 0, 0, NoTx) }
            \cup { Instr("SetGasPrice", "A1", 5, 0, NoTx) }
            \cup { Instr("Deal", "A1", x, 0, NoTx) : x \in {337, 1000} }
            \cup { Instr("Deal", "A2", 1000, 0, NoTx) }
            \cup { Instr("Load", a, 0, "K1", NoTx) : a \in Addr }
            \cup { Instr("Store", "A1", 42, "K1", NoTx) }
            \cup { Instr("Access", "A1", 0, 0, NoTx) }
      [] t = "t3" ->
            { Instr("AddAccount", a, 0, 0, NoTx) : a \in Addr }

\* EnvironmentParameters as the tests build them: how the block and the gas price move.
UserControlled == [block_settings |-> [kind |-> "UserControlled"],
                   gas_settings |-> [kind |-> "UserControlled"]]

\* The gas price of the tests' constant gas policy.
TEST_GAS_PRICE == 100

\* startup_constant_gas: GasSettings::Constant(TEST_GAS_PRICE)
ConstantGas == [block_settings |-> [kind |-> "UserControlled"],
                gas_settings |-> [kind |-> "Constant", price |-> TEST_GAS_PRICE]]

\* startup_randomly_sampled: BlockSettings::RandomlySampled and
\* GasSettings::RandomlySampled
RandomlySampled == [block_settings |-> [kind |-> "RandomlySampled"],
                    gas_settings |-> [kind |-> "RandomlySampled"]]

\* What the seeded Poisson sampler of the tests draws: the transactions per block.
SampledTransactions == <<3, 2, 3, 0, 2>>

\* The seeds the tests and a second user construct clients with; None is no seed.
TEST_SIGNER_SEED_AND_LABEL == "test_seed_and_label"
Seeds == {TEST_SIGNER_SEED_AND_LABEL, "other_seed", "None"}

\* A wallet that draws its key from the thread's generator whatever the seed.
WalletUnseeded(seed) == Addr

\* Wallet::new(&mut rng): the addresses the wallet can get. With a seed the generator
\* is StdRng seeded with the SHA-256 of the seed, so the address is a function of the
\* seed; with no seed it is rand::thread_rng(), any address.
Wallet(seed) ==
    CASE seed = TEST_SIGNER_SEED_AND_LABEL -> {"A1"}
      [] seed = "other_seed" -> {"A2"}
      [] OTHER -> Addr

\* The further environments a program can build, and one that is not built: it has
\* no database.
Envs == {"e1", "e2"}
NoEnvironment ==
    [db |-> 0, block_number |-> 0, block_timestamp |-> 0, gas_price |-> 0,
     transaction_index |-> 0, cumulative_gas_per_block |-> 0,
     queue |-> <<>>, outcomes |-> <<>>, bus |-> <<>>]

\* Nothing converts, no engine runs, no client registers filters, no world runs.
NoConversion == [pc |-> "none"]
NoEngine == [pc |-> "none"]
NoConnection == [pc |-> "none"]
NoWorld == [pc |-> "none"]
Unused ==
    /\ conversion = NoConversion
    /\ engine = NoEngine
    /\ connection = NoConnection
    /\ world = NoWorld

\* No SimpleArbitrageur.
NoAgent == [pc |-> "none"]

\* ------------------------------------------------------------------ init

\* The environment after Environment::builder().build() and the construction of c1.
Built ==
    /\ accounts = [a \in Addr |-> IF a = AddressOf("c1") THEN DefaultAccount ELSE NoAccount]
    /\ block_number = 0
    /\ block_timestamp = 1
    /\ gas_price = 0
    /\ transaction_index = 0
    /\ cumulative_gas_per_block = 0
    /\ worker = "running"
    /\ queue = <<>>
    /\ chan = [c \in Clients \cup {EnvChan} |-> <<>>]
    /\ bus = <<>>
    /\ tasks = [t \in Tasks |-> [pc |-> "idle", id |-> 0]]
    /\ got = NoneGot
    /\ mode \in {"sequential", "concurrent"}
    /\ env = "built"
    /\ nextId = 1
    /\ last = NoStep
    /\ blockGas = <<>>
    \* let (event_broadcaster, _) = channel(512): the first receiver is dropped
    /\ receivers = <<>>
    \* RevmMiddleware::new(&env, Some(TEST_SIGNER_SEED_AND_LABEL)) of the tests' startup
    /\ clients = <<[seed |-> TEST_SIGNER_SEED_AND_LABEL, address |-> AddressOf("c1"),
                    pc |-> "built", err |-> "None"]>>
    /\ heap = <<>>
    /\ environments = [e \in Envs |-> NoEnvironment]

\* The tests' environment: nothing but the client instructions moves the block and
\* sets the gas price; no agent filters logs.
Init ==
    /\ Built
    /\ parameters = UserControlled
    /\ agent = NoAgent
    /\ Unused

\* ------------------------------------------------------------------ clients

\* last and got describe the step just taken: a step that is no worker step leaves no
\* last, a step that is no receive leaves no got.
Quiet == last' = NoStep /\ got' = NoneGot

\* A middleware method: upgrade the weak sender, send the instruction with the
\* connection's outcome_sender, then wait on the connection's outcome_receiver.
Enqueue(q, m) == Append(q, m)

\* A method that sends although the weak sender does not upgrade.
SubmitAnyway(t, ins) ==
    /\ tasks[t].pc = "idle"
    /\ IF mode = "sequential"
          THEN nextId <= MaxInstr /\ env # "stopping" /\ \A u \in Tasks : tasks[u].pc = "idle"
          ELSE nextId <= MaxConc
    /\ queue' = Enqueue(queue, [id |-> nextId, chan |-> ClientOf(t)] @@ ins)
    /\ tasks' = [tasks EXCEPT ![t] = [pc |-> "waiting", id |-> nextId]]
    /\ nextId' = nextId + 1
    /\ Quiet
    /\ UNCHANGED <<evmState, counters, worker, chan, bus, mode, env, blockGas>>
    /\ UNCHANGED <<receivers, elsewhere>>

\* With one driver thread nothing is sent while that thread is in Environment::stop.
Submit(t, ins) ==
    /\ tasks[t].pc = "idle"
    /\ env # "dropped"
    /\ IF mode = "sequential"
          THEN nextId <= MaxInstr /\ env = "built" /\ \A u \in Tasks : tasks[u].pc = "idle"
          ELSE nextId <= MaxConc
    /\ queue' = Enqueue(queue, [id |-> nextId, chan |-> ClientOf(t)] @@ ins)
    /\ tasks' = [tasks EXCEPT ![t] = [pc |-> "waiting", id |-> nextId]]
    /\ nextId' = nextId + 1
    /\ Quiet
    /\ UNCHANGED <<evmState, counters, worker, chan, bus, mode, env, blockGas>>
    /\ UNCHANGED <<receivers, elsewhere>>

\* The weak sender does not upgrade: "Environment is offline!", nothing is sent.
Offline(t) ==
    /\ tasks[t].pc = "idle"
    /\ env = "dropped"
    /\ got' = [task |-> t, id |-> 0, outcome |-> Err(0, "EnvironmentOffline")]
    /\ got' # got
    /\ last' = NoStep
    /\ UNCHANGED <<evmState, counters, worker, queue, chan, bus, tasks, mode, env, nextId, blockGas>>
    /\ UNCHANGED <<receivers, elsewhere>>

\* outcome_receiver.recv(): the caller takes the first outcome of the connection's channel.
Recv(t) ==
    /\ tasks[t].pc = "waiting"
    /\ chan[ClientOf(t)] # <<>>
    /\ got' = [task |-> t, id |-> tasks[t].id, outcome |-> Head(chan[ClientOf(t)])]
    /\ tasks' = [tasks EXCEPT ![t] = [pc |-> "idle", id |-> 0]]
    /\ chan' = [chan EXCEPT ![ClientOf(t)] = Tail(@)]
    /\ last' = NoStep
    /\ UNCHANGED <<evmState, counters, worker, queue, bus, mode, env, nextId, blockGas>>
    /\ UNCHANGED <<receivers, elsewhere>>

\* What get_block_number makes of the outcome it receives: the decimal string of a
\* QueryReturn is read as a U64 (U64::from_str_radix), an error beyond u64::MAX.
get_block_number(outcome) ==
    IF outcome.kind # "QueryReturn" THEN [ok |-> FALSE, val |-> 0]
    ELSE IF FromDigits(outcome.val) <= U64_MAX THEN [ok |-> TRUE, val |-> FromDigits(outcome.val)]
    ELSE [ok |-> FALSE, val |-> 0]

\* What get_block_timestamp makes of it: the string is read as a U256.
get_block_timestamp(outcome) ==
    IF outcome.kind # "QueryReturn" THEN [ok |-> FALSE, val |-> 0]
    ELSE IF FromDigits(outcome.val) <= U256_MAX THEN [ok |-> TRUE, val |-> FromDigits(outcome.val)]
    ELSE [ok |-> FALSE, val |-> 0]

\* update_block is Ok with the receipt data when the outcome is BlockUpdateCompleted.
update_block(outcome) ==
    IF outcome.kind = "BlockUpdateCompleted" THEN [ok |-> TRUE, val |-> outcome.receipt]
    ELSE [ok |-> FALSE, val |-> NoReceipt]

\* ------------------------------------------------------------------ worker

\* A receiver that hands out the newest instruction, and one that loses the
\* instruction behind the one it hands out.
Newest(q) == q[Len(q)]
SkipOne(q) == IF Len(q) > 1 THEN Tail(Tail(q)) ELSE Tail(q)

\* instruction_receiver.recv() of the while-let loop.
Dequeue(q) == Head(q)
Rest(q) == Tail(q)

\* A loop that goes on after it has ended.
TakingAlways(kinds) ==
    /\ queue # <<>>
    /\ Dequeue(queue).kind \in kinds
    /\ got' = NoneGot

Taking(kinds) ==
    /\ worker = "running"
    /\ queue # <<>>
    /\ Dequeue(queue).kind \in kinds
    /\ got' = NoneGot

\* A reply that is sent only when the broadcast had a receiver.
ReplyWhenHeard(ins, outcome) ==
    IF DOMAIN receivers = {}
       THEN UNCHANGED chan
       ELSE chan' = [chan EXCEPT ![ins.chan] = Append(@, outcome)]

\* outcome_sender.send(outcome)
Reply(ins, outcome) == chan' = [chan EXCEPT ![ins.chan] = Append(@, outcome)]

\* The worker thread ends without a reply: `?` on an Err, or a panic.
Fails(ins) ==
    /\ worker' = "failed"
    /\ queue' = Rest(queue)
    /\ last' = Step(ins, <<>>, NoOutcome, <<>>)
    /\ UNCHANGED <<chan, bus>>

\* outcome_sender.send(outcome)?: the send fails when the receiver is dropped, and
\* the `?` returns the error from the worker closure.
Replies(ins, outcome) ==
    IF ins.chan = Gone
       THEN Fails(ins)
       ELSE /\ Reply(ins, outcome)
            /\ queue' = Rest(queue)
            /\ last' = Step(ins, <<"reply">>, outcome, <<>>)
            /\ UNCHANGED <<worker, bus>>

\* accounts.insert(address, account): the new account takes the place of an old one.
Insert(accts, a, account) == [accts EXCEPT ![a] = account]

DoAddAccount ==
    /\ Taking({"AddAccount"})
    /\ LET ins == Dequeue(queue)
       IN  /\ accounts' = Insert(accounts, ins.a, DefaultAccount)
           /\ IF ~accounts[ins.a].exists
                 THEN Replies(ins, Ok(ins.id, "AddAccountCompleted", <<>>))
                 ELSE Replies(ins, Err(ins.id, "AccountCreationError"))
    /\ UNCHANGED <<block_number, block_timestamp, gas_price, counters, tasks, mode, env, nextId,
                   blockGas>>
    /\ UNCHANGED <<receivers, elsewhere>>

DoBlockUpdate ==
    /\ Taking({"BlockUpdate"})
    /\ LET ins == Dequeue(queue)
           old == convert_uint_to_u64(block_number)
           receipt_data == [block_number |-> old.val, transaction_index |-> transaction_index,
                            cumulative_gas_per_block |-> cumulative_gas_per_block]
       IN  IF ~old.ok
              THEN \* convert_uint_to_u64(..).unwrap() panics
                   /\ Fails(ins)
                   /\ UNCHANGED <<block_number, block_timestamp, counters, blockGas>>
              ELSE IF ins.chan = Gone
              THEN \* the send of the reply fails before the block is moved
                   /\ Fails(ins)
                   /\ UNCHANGED <<block_number, block_timestamp, counters, blockGas>>
              ELSE /\ Replies(ins, Outcome(ins.id, "BlockUpdateCompleted", "None", <<>>,
                                           NoResult, receipt_data))
                   /\ block_number' = ins.x
                   /\ block_timestamp' = ins.y
                   /\ transaction_index' = 0
                   /\ cumulative_gas_per_block' = 0
                   /\ blockGas' = <<>>
    /\ UNCHANGED <<accounts, gas_price, tasks, mode, env, nextId>>
    /\ UNCHANGED <<receivers, elsewhere>>

\* account.storage.get(key), zero when the key is missing
Load(account, key) == IF key \in DOMAIN account.storage THEN account.storage[key] ELSE 0

\* account.storage.insert(key, value)
Store(account, key, value) ==
    [account EXCEPT !.storage = [k \in DOMAIN account.storage \cup {key} |->
                                    IF k = key THEN value ELSE account.storage[k]]]

\* account.info.balance += amount (a U256)
Deal(account, amount) ==
    [account EXCEPT !.balance = (account.balance + amount) % (U256_MAX + 1)]

\* CheatcodesReturn::Access { account_state, info, storage }
Access(account) == [balance |-> account.balance, nonce |-> account.nonce,
                    storage |-> account.storage]

DoCheatcode ==
    /\ Taking({"Load", "Store", "Deal", "Access"})
    /\ LET ins == Dequeue(queue)
           account == accounts[ins.a]
       IN  IF ~account.exists
              THEN /\ Replies(ins, Err(ins.id, "AccountDoesNotExistError"))
                   /\ UNCHANGED accounts
              ELSE CASE ins.kind = "Load" ->
                          /\ Replies(ins, Ok(ins.id, "CheatcodeReturn",
                                             [op |-> "Load", value |-> Load(account, ins.y)]))
                          /\ UNCHANGED accounts
                     [] ins.kind = "Store" ->
                          /\ accounts' = [accounts EXCEPT ![ins.a] = Store(account, ins.y, ins.x)]
                          /\ Replies(ins, Ok(ins.id, "CheatcodeReturn", [op |-> "Store"]))
                     [] ins.kind = "Deal" ->
                          /\ accounts' = [accounts EXCEPT ![ins.a] = Deal(account, ins.x)]
                          /\ Replies(ins, Ok(ins.id, "CheatcodeReturn", [op |-> "Deal"]))
                     [] ins.kind = "Access" ->
                          /\ Replies(ins, Ok(ins.id, "CheatcodeReturn",
                                             [op |-> "Access", account |-> Access(account)]))
                          /\ UNCHANGED accounts
    /\ UNCHANGED <<block_number, block_timestamp, gas_price, counters, tasks, mode, env, nextId,
                   blockGas>>
    /\ UNCHANGED <<receivers, elsewhere>>

\* What the interpreter returns for tx_env: Err(EVMError), or Ok with the execution
\* result (Success, or Revert without logs) and the state it leaves.
ExecutionResult(tx) ==
    [kind |-> tx.exec, gas_used |-> tx.gas_used,
     logs |-> IF tx.exec = "Success" THEN <<[address |-> tx.caller]>> ELSE <<>>,
     output |-> IF tx.exec # "Success" THEN [kind |-> "None"]
                ELSE IF tx.transact_to.kind = "Create"
                THEN [kind |-> "Create", address |-> [created_by |-> tx.caller]]
                ELSE [kind |-> "Call"]]

\* The state of an executed transaction: the nonce of the caller is bumped (an
\* account the database does not hold yet is created by the commit).
Touched(accts, tx) ==
    [accts EXCEPT ![tx.caller] = [@ EXCEPT !.exists = TRUE, !.nonce = @ + 1]]

\* A call that writes the state of its execution.
transact_writes(accts, tx) ==
    [ok |-> tx.exec # "Err", result |-> ExecutionResult(tx),
     db |-> IF tx.exec # "Err" THEN Touched(accts, tx) ELSE accts]

\* evm.transact(): the database is left as it is.
transact(accts, tx) ==
    [ok |-> tx.exec # "Err", result |-> ExecutionResult(tx), db |-> accts]

\* A commit that also writes the state of an execution the interpreter rejected.
commit_always(accts, tx) ==
    [ok |-> tx.exec # "Err", result |-> ExecutionResult(tx), db |-> Touched(accts, tx)]

\* evm.transact_commit(): the state of an Ok execution is committed.
transact_commit(accts, tx) ==
    [ok |-> tx.exec # "Err", result |-> ExecutionResult(tx),
     db |-> IF tx.exec # "Err" THEN Touched(accts, tx) ELSE accts]

DoCall ==
    /\ Taking({"Call"})
    /\ LET ins == Dequeue(queue)
           r == transact(accounts, ins.tx)
       IN  /\ gas_price' = ins.tx.gas_price
           /\ accounts' = r.db
           /\ IF ~r.ok
                 THEN Fails(ins)           \* evm.transact()? returns the error
                 ELSE Replies(ins, Outcome(ins.id, "CallCompleted", "None", <<>>, r.result,
                                           NoReceipt))
    /\ UNCHANGED <<block_number, block_timestamp, counters, tasks, mode, env, nextId, blockGas>>
    /\ UNCHANGED <<receivers, elsewhere>>

DoSetGasPrice ==
    /\ Taking({"SetGasPrice"})
    /\ LET ins == Dequeue(queue)
       IN  /\ gas_price' = ins.x
           /\ Replies(ins, Ok(ins.id, "SetGasPriceCompleted", <<>>))
    /\ UNCHANGED <<accounts, block_number, block_timestamp, counters, tasks, mode, env, nextId,
                   blockGas>>
    /\ UNCHANGED <<receivers, elsewhere>>

\* event_broadcaster.send(broadcast)
Broadcast(b, msg) == Append(b, msg)

\* The send of the broadcast channel never waits. With no receiver it is an error
\* and the message is lost; otherwise every receiver gets the message to read, and
\* a receiver that is Capacity messages behind loses its oldest unread message.
send(rx, msg) ==
    [ok |-> DOMAIN rx # {},
     rx |-> [r \in DOMAIN rx |->
               IF Len(rx[r].unread) < Capacity
                  THEN [unread |-> Append(rx[r].unread, msg), lagged |-> rx[r].lagged]
                  ELSE [unread |-> Append(Tail(rx[r].unread), msg), lagged |-> TRUE]]]

\* The order in which a committed transaction is published and answered.
TransactionSends == <<"event", "reply">>

\* Counters that stay where they are.
SameIndex(i) == i
KeepGas(cumulative, gas_used) == cumulative
\* A counter that counts a transaction twice.
SkipIndex(i) == i + 2

\* transaction_index += U64::from(1)
NextIndex(i) == i + 1

\* cumulative_gas_per_block += U256::from(gas_used)
AddGas(cumulative, gas_used) == (cumulative + gas_used) % (U256_MAX + 1)

DoTransaction ==
    /\ Taking({"Transaction"})
    /\ LET ins == Dequeue(queue)
           r == transact_commit(accounts, ins.tx)
           number == convert_uint_to_u64(block_number)
           cumulative == AddGas(cumulative_gas_per_block, r.result.gas_used)
           receipt_data == [block_number |-> number.val,
                            transaction_index |-> transaction_index,
                            cumulative_gas_per_block |-> cumulative]
           outcome == Outcome(ins.id, "TransactionCompleted", "None", <<>>, r.result,
                              receipt_data)
       IN  /\ gas_price' = ins.tx.gas_price
           /\ accounts' = r.db
           /\ IF ~r.ok
                 THEN /\ Replies(ins, Err(ins.id, "EVMError"))
                      /\ UNCHANGED <<counters, blockGas, receivers>>
                 ELSE IF ~number.ok
                 THEN \* convert_uint_to_u64(evm.block().number)? returns the error
                      /\ Fails(ins)
                      /\ cumulative_gas_per_block' = cumulative
                      /\ UNCHANGED <<transaction_index, blockGas, receivers>>
                 ELSE IF ins.chan = Gone
                 THEN \* the Event is published, the send of the reply fails
                      /\ bus' = Broadcast(bus, [kind |-> "Event", logs |-> r.result.logs])
                      /\ receivers' = send(receivers, [kind |-> "Event", logs |-> r.result.logs]).rx
                      /\ worker' = "failed"
                      /\ queue' = Rest(queue)
                      /\ last' = Step(ins, <<"event">>, NoOutcome, r.result.logs)
                      /\ cumulative_gas_per_block' = cumulative
                      /\ UNCHANGED <<chan, transaction_index, blockGas>>
                 ELSE /\ bus' = Broadcast(bus, [kind |-> "Event", logs |-> r.result.logs])
                      /\ receivers' = send(receivers, [kind |-> "Event", logs |-> r.result.logs]).rx
                      /\ Reply(ins, outcome)
                      /\ queue' = Rest(queue)
                      /\ last' = Step(ins, TransactionSends, outcome, r.result.logs)
                      /\ cumulative_gas_per_block' = cumulative
                      /\ transaction_index' = NextIndex(transaction_index)
                      /\ blockGas' = Append(blockGas, r.result.gas_used)
                      /\ UNCHANGED worker
    /\ UNCHANGED <<block_number, block_timestamp, tasks, mode, env, nextId>>
    /\ UNCHANGED elsewhere

QueryKinds == {"BlockNumber", "BlockTimestamp", "GasPrice", "Balance", "TransactionCount"}

\* A query that answers for a missing account as for an empty one.
QueryLenient(ins) ==
    CASE ins.kind = "BlockNumber" -> Ok(ins.id, "QueryReturn", to_string(block_number))
      [] ins.kind = "BlockTimestamp" -> Ok(ins.id, "QueryReturn", to_string(block_timestamp))
      [] ins.kind = "GasPrice" -> Ok(ins.id, "QueryReturn", to_string(gas_price))
      [] ins.kind = "Balance" -> Ok(ins.id, "QueryReturn", to_string(accounts[ins.a].balance))
      [] ins.kind = "TransactionCount" ->
            Ok(ins.id, "QueryReturn", to_string(accounts[ins.a].nonce))

\* The outcome of Instruction::Query for environment_data.
Query(ins) ==
    CASE ins.kind = "BlockNumber" -> Ok(ins.id, "QueryReturn", to_string(block_number))
      [] ins.kind = "BlockTimestamp" -> Ok(ins.id, "QueryReturn", to_string(block_timestamp))
      [] ins.kind = "GasPrice" -> Ok(ins.id, "QueryReturn", to_string(gas_price))
      [] ins.kind = "Balance" ->
            IF accounts[ins.a].exists
               THEN Ok(ins.id, "QueryReturn", to_string(accounts[ins.a].balance))
               ELSE Err(ins.id, "AccountDoesNotExistError")
      [] ins.kind = "TransactionCount" ->
            IF accounts[ins.a].exists
               THEN Ok(ins.id, "QueryReturn", to_string(accounts[ins.a].nonce))
               ELSE Err(ins.id, "AccountDoesNotExistError")

DoQuery ==
    /\ Taking(QueryKinds)
    /\ Replies(Dequeue(queue), Query(Dequeue(queue)))
    /\ UNCHANGED <<evmState, counters, tasks, mode, env, nextId, blockGas>>
    /\ UNCHANGED <<receivers, elsewhere>>

DoStop ==
    /\ Taking({"Stop"})
    /\ LET ins == Dequeue(queue)
           outcome == Ok(ins.id, "StopCompleted", accounts)
       IN  /\ bus' = Broadcast(bus, [kind |-> "StopSignal", logs |-> <<>>])
           /\ receivers' = send(receivers, [kind |-> "StopSignal", logs |-> <<>>]).rx
           /\ Reply(ins, outcome)
           /\ queue' = Rest(queue)
           /\ last' = Step(ins, <<"stop_signal", "reply">>, outcome, <<>>)
           /\ worker' = "stopped"
    /\ UNCHANGED <<evmState, counters, tasks, mode, env, nextId, blockGas>>
    /\ UNCHANGED elsewhere

\* ------------------------------------------------------------------ Environment::stop

\* instruction_sender.send(Instruction::Stop(outcome_sender))
EnvStop ==
    /\ env = "built"
    /\ queue' = Enqueue(queue, [id |-> nextId, chan |-> EnvChan]
                                  @@ Instr("Stop", "A1", 0, 0, NoTx))
    /\ nextId' = nextId + 1
    /\ env' = "stopping"
    /\ Quiet
    /\ UNCHANGED <<evmState, counters, worker, chan, bus, tasks, mode, blockGas>>
    /\ UNCHANGED <<receivers, elsewhere>>

\* outcome_receiver.recv(), then the sender is dropped and the thread joined.
EnvStopped ==
    /\ env = "stopping"
    /\ chan[EnvChan] # <<>>
    /\ chan' = [chan EXCEPT ![EnvChan] = Tail(@)]
    /\ env' = "dropped"
    /\ Quiet
    /\ UNCHANGED <<evmState, counters, worker, queue, bus, tasks, mode, nextId, blockGas>>
    /\ UNCHANGED <<receivers, elsewhere>>

\* ------------------------------------------------------------------ specification

Worker ==
    \/ DoAddAccount
    \/ DoBlockUpdate
    \/ DoCheatcode
    \/ DoCall
    \/ DoSetGasPrice
    \/ DoTransaction
    \/ DoQuery
    \/ DoStop

Next ==
    \/ \E t \in Tasks : \E ins \in Instructions(t) : Submit(t, ins)
    \/ \E t \in Tasks : Offline(t)
    \/ \E t \in Tasks : Recv(t)
    \/ Worker
    \/ EnvStop
    \/ EnvStopped

Spec == Init /\ [][Next]_vars

\* ------------------------------------------------------------------ dropped replies

\* A sender that does not wait for the outcome: it sends an instruction and drops
\* the receiver of its reply channel before the worker writes to it.
SendAndDrop(ins) ==
    /\ env = "built"
    /\ worker = "running"
    /\ nextId <= MaxInstr
    /\ \A u \in Tasks : tasks[u].pc = "idle"
    /\ queue = <<>>
    /\ queue' = Enqueue(queue, [id |-> nextId, chan |-> Gone] @@ ins)
    /\ nextId' = nextId + 1
    /\ Quiet
    /\ UNCHANGED <<evmState, counters, worker, chan, bus, tasks, mode, env, blockGas>>
    /\ UNCHANGED <<receivers, elsewhere>>

NextDrop ==
    \/ Next
    \/ \E t \in Tasks : \E ins \in Instructions(t) : SendAndDrop(ins)

\* One driver thread, as in the tests.
InitDrop == Init /\ mode = "sequential"

SpecDrop == InitDrop /\ [][NextDrop]_vars

\* ------------------------------------------------------------------ cheatcodes

\* What apply_cheatcode makes of the outcome it receives: recv()?? returns an Err
\* outcome as the error, any outcome but CheatcodeReturn is MissingData.
apply_cheatcode(outcome) ==
    IF outcome.kind = "Error" THEN [ok |-> FALSE, err |-> outcome.err]
    ELSE IF outcome.kind = "CheatcodeReturn" THEN [ok |-> TRUE, val |-> outcome.val]
    ELSE [ok |-> FALSE, err |-> "MissingData"]

\* U256::to_be_bytes: the word of the value, most significant first (a word of
\* U256Bits binary digits for the 32 bytes of the source).
to_be_bytes(value) == [i \in 1 .. U256Bits |-> (value \div Pow2(U256Bits - i)) % 2]

\* What get_storage_at returns for the outcome of its Load: the result of
\* apply_cheatcode is unwrapped, so its error is a panic of the caller.
get_storage_at(outcome) ==
    LET result == apply_cheatcode(outcome)
    IN  IF ~result.ok THEN [kind |-> "Panic"]
        ELSE IF result.val.op = "Load"
        THEN [kind |-> "Ok", value |-> to_be_bytes(result.val.value)]
        ELSE [kind |-> "Err", err |-> "MissingData"]

\* One driver thread that uses the cheatcodes with every account and key, deals
\* amounts up to the largest U256, queries the balances and constructs clients.
CheatInstructions(t) ==
    CASE t = "t1" -> {}
      [] t = "t2" ->
            { Instr("Store", a, v, k, NoTx) : a \in Addr, k \in Key, v \in {7, 42} }
            \cup { Instr("Load", a, 0, k, NoTx) : a \in Addr, k \in Key }
            \cup { Instr("Deal", a, x, 0, NoTx) : a \in Addr, x \in {337, 1000, U256_MAX} }
            \cup { Instr(q, a, 0, 0, NoTx) : q \in {"Balance", "TransactionCount", "Access"},
                                              a \in Addr }
      [] t = "t3" ->
            { Instr("AddAccount", a, 0, 0, NoTx) : a \in Addr }

NextCheat ==
    \/ \E t \in Tasks : \E ins \in CheatInstructions(t) : Submit(t, ins)
    \/ \E t \in Tasks : Recv(t)
    \/ DoAddAccount
    \/ DoCheatcode
    \/ DoQuery

SpecCheat == InitDrop /\ [][NextCheat]_vars

\* ------------------------------------------------------------------ dropped senders

\* The Environment is dropped without stop(): its Arc<InstructionSender>, the only
\* strong handle to the sender (the clients hold weak ones), goes with it.
EnvDrop ==
    /\ env = "built"
    /\ env' = "dropped"
    /\ Quiet
    /\ UNCHANGED <<evmState, counters, worker, queue, chan, bus, tasks, mode, nextId, blockGas,
                   receivers, elsewhere>>

\* A receiver that reports the disconnection while instructions are queued.
DisconnectedAtOnce ==
    /\ worker = "running"
    /\ env = "dropped"
    /\ worker' = "ended"
    /\ Quiet
    /\ UNCHANGED <<evmState, counters, queue, chan, bus, tasks, mode, env, nextId, blockGas,
                   receivers, elsewhere>>

\* instruction_receiver.recv() is an Err when no sender is left and the channel is
\* empty: the while-let loop ends and the closure returns Ok(()).
Disconnected ==
    /\ worker = "running"
    /\ env = "dropped"
    /\ queue = <<>>
    /\ worker' = "ended"
    /\ Quiet
    /\ UNCHANGED <<evmState, counters, queue, chan, bus, tasks, mode, env, nextId, blockGas,
                   receivers, elsewhere>>

\* What the concurrent callers send: a transaction or a call the interpreter
\* rejects, a deal or a query, the construction of a client.
LifeInstructions(t) ==
    CASE t = "t1" ->
            { Instr("Transaction", "A1", 0, 0, TxEnv(ClientOf(t), gas_price, "Success", 1)),
              Instr("Call", "A1", 0, 0, TxEnv(ClientOf(t), 0, "Err", 1)) }
      [] t = "t2" ->
            { Instr("Deal", "A1", 1000, 0, NoTx), Instr("Balance", "A1", 0, 0, NoTx) }
      [] t = "t3" ->
            { Instr("AddAccount", "A2", 0, 0, NoTx) }

NextLife ==
    \/ \E t \in Tasks : \E ins \in LifeInstructions(t) : Submit(t, ins)
    \/ \E t \in Tasks : Offline(t)
    \/ \E t \in Tasks : Recv(t)
    \/ DoAddAccount
    \/ DoCheatcode
    \/ DoCall
    \/ DoTransaction
    \/ DoQuery
    \/ DoStop
    \/ EnvStop
    \/ EnvStopped
    \/ EnvDrop
    \/ Disconnected

\* Callers that run concurrently, so that several instructions wait in the queue.
InitLife == Init /\ mode = "concurrent"

\* The worker is a thread of its own: it takes a step whenever it can.
SpecLife == InitLife /\ [][NextLife]_vars /\ WF_vars(Worker \/ Disconnected)

\* The same program with a thread in Environment::stop that is scheduled too: it
\* takes the outcome of its Stop once there is one.
SpecStop ==
    InitLife /\ [][NextLife]_vars /\ WF_vars(Worker \/ Disconnected) /\ WF_vars(EnvStopped)

\* ------------------------------------------------------------------ receipts

\* Option: None and Some(x)
None == [some |-> FALSE]
Some(x) == [some |-> TRUE, val |-> x]

\* What send_transaction makes of the outcome it takes from the channel of its
\* connection, for the tx_env it sent from its wallet: the error of an Err outcome,
\* a panic for an outcome that is no TransactionCompleted, the error of an execution
\* result that is no Success, and else the receipt.
send_transaction(wallet, tx_env, outcome) ==
    IF outcome.kind = "Error" THEN [kind |-> "Err"]
    ELSE IF outcome.kind # "TransactionCompleted" THEN [kind |-> "Panic"]
    ELSE IF outcome.result.kind # "Success" THEN [kind |-> "Err"]
    ELSE LET to == IF tx_env.transact_to.kind = "Call"
                      THEN Some(tx_env.transact_to.address) ELSE None
             receipt_data == outcome.receipt
         IN  [kind |-> "Ok",
              receipt |->
                 [block_number |-> Some(receipt_data.block_number),
                  contract_address |-> IF outcome.result.output.kind = "Create"
                                          THEN Some(outcome.result.output.address)
                                          ELSE None,
                  from |-> wallet,
                  gas_used |-> Some(outcome.result.gas_used),
                  to |-> to,
                  cumulative_gas_used |-> receipt_data.cumulative_gas_per_block,
                  status |-> Some(1),
                  transaction_index |-> receipt_data.transaction_index]]

\* Two tasks send transactions through one client: t1 to the address A2, t2 a deploy.
SentBy(t, exec) ==
    IF t = "t2" THEN Deploy(ClientOf(t), gas_price, exec, 2)
                ELSE TxEnv(ClientOf(t), gas_price, exec, 1)

ReceiptInstructions(t) ==
    CASE t = "t1" -> { Instr("Transaction", "A1", 0, 0, SentBy(t, e)) : e \in {"Success", "Revert"} }
      [] t = "t2" -> { Instr("Transaction", "A1", 0, 0, SentBy(t, "Success")) }
      [] OTHER -> {}

NextReceipt ==
    \/ \E t \in Tasks : \E ins \in ReceiptInstructions(t) : Submit(t, ins)
    \/ \E t \in Tasks : Recv(t)
    \/ DoTransaction

SpecReceipt == InitLife /\ [][NextReceipt]_vars

\* ------------------------------------------------------------------ further environments

\* CacheDB::new(EmptyDB::new())
EmptyDB == [a \in Addr |-> NoAccount]

\* A builder that hands out the database that was allocated first.
builder_shared(h) == [db |-> 1, heap |-> Append(h, EmptyDB)]

\* Environment::builder(): Arc::new(RwLock::new(CacheDB::new(EmptyDB::new()))), a
\* database allocated for this builder, and the handle to it.
builder(h) == [db |-> Len(h) + 1, heap |-> Append(h, EmptyDB)]

\* Environment::create and the start of run: the socket's channels are new, the
\* block and the transaction environment are Env::default(), the counters are zero.
create(db) ==
    [db |-> db, block_number |-> 0, block_timestamp |-> 1, gas_price |-> 0,
     transaction_index |-> 0, cumulative_gas_per_block |-> 0,
     queue |-> <<>>, outcomes |-> <<>>, bus |-> <<>>]

\* EnvironmentBuilder::build
Build(e) ==
    /\ environments[e] = NoEnvironment
    /\ LET b == builder(heap)
       IN  /\ heap' = b.heap
           /\ environments' = [environments EXCEPT ![e] = create(b.db)]
    /\ UNCHANGED <<evmState, counters, worker, queue, chan, bus, tasks, got, mode, env, nextId,
                   last, blockGas, receivers, parameters, agent, clients,
                   conversion, engine, connection, world>>

\* What the clients of a further environment send.
TwoInstructions ==
    { Instr("AddAccount", "A1", 0, 0, NoTx),
      Instr("Deal", "A1", 1000, 0, NoTx),
      Instr("BlockUpdate", "A1", 1, 100, NoTx),
      Instr("SetGasPrice", "A1", 5, 0, NoTx),
      Instr("Transaction", "A1", 0, 0, TxEnv("c1", 0, "Success", 1)) }

\* The instructions sent to the further environments so far.
SentSoFar ==
    LET SentTo(e) == Len(environments[e].queue) + Len(environments[e].outcomes)
    IN  SentTo("e1") + SentTo("e2")

\* The environments that are built.
Running == {e \in Envs : environments[e] # NoEnvironment}

\* One driver thread sends an instruction through the socket of environment e.
Send(e, ins) ==
    /\ e \in Running
    /\ \A f \in Running : environments[f].queue = <<>>
    /\ SentSoFar < MaxInstr
    /\ environments' = [environments EXCEPT ![e].queue = Enqueue(@, ins)]
    /\ UNCHANGED <<evmState, counters, worker, queue, chan, bus, tasks, got, mode, env, nextId,
                   last, blockGas, receivers, parameters, agent, clients, heap,
                   conversion, engine, connection, world>>

\* One turn of the loop of run for the instruction ins: what it makes of the
\* worker's block, gas price and counters, of its replies and broadcasts, and of
\* the database db behind the worker's handle.
Turn(e, db, ins) ==
    CASE ins.kind = "AddAccount" ->
            [env |-> [e EXCEPT !.outcomes =
                        Append(@, IF ~db[ins.a].exists
                                     THEN Ok(0, "AddAccountCompleted", <<>>)
                                     ELSE Err(0, "AccountCreationError"))],
             db |-> Insert(db, ins.a, DefaultAccount)]
      [] ins.kind = "Deal" ->
            IF ~db[ins.a].exists
               THEN [env |-> [e EXCEPT !.outcomes =
                                Append(@, Err(0, "AccountDoesNotExistError"))],
                     db |-> db]
               ELSE [env |-> [e EXCEPT !.outcomes =
                                Append(@, Ok(0, "CheatcodeReturn", [op |-> "Deal"]))],
                     db |-> [db EXCEPT ![ins.a] = Deal(@, ins.x)]]
      [] ins.kind = "BlockUpdate" ->
            [env |-> [e EXCEPT !.outcomes =
                        Append(@, Outcome(0, "BlockUpdateCompleted", "None", <<>>, NoResult,
                                          [block_number |-> convert_uint_to_u64(e.block_number).val,
                                           transaction_index |-> e.transaction_index,
                                           cumulative_gas_per_block |-> e.cumulative_gas_per_block])),
                                !.block_number = ins.x,
                                !.block_timestamp = ins.y,
                                !.transaction_index = 0,
                                !.cumulative_gas_per_block = 0],
             db |-> db]
      [] ins.kind = "SetGasPrice" ->
            [env |-> [e EXCEPT !.outcomes = Append(@, Ok(0, "SetGasPriceCompleted", <<>>)),
                                !.gas_price = ins.x],
             db |-> db]
      [] ins.kind = "Transaction" ->
            LET r == transact_commit(db, ins.tx)
                cumulative == AddGas(e.cumulative_gas_per_block, r.result.gas_used)
                receipt_data == [block_number |-> convert_uint_to_u64(e.block_number).val,
                                 transaction_index |-> e.transaction_index,
                                 cumulative_gas_per_block |-> cumulative]
            IN  [env |-> [e EXCEPT !.outcomes =
                            Append(@, Outcome(0, "TransactionCompleted", "None", <<>>,
                                              r.result, receipt_data)),
                                   !.bus = Broadcast(@, [kind |-> "Event",
                                                         logs |-> r.result.logs]),
                                   !.gas_price = ins.tx.gas_price,
                                   !.transaction_index = NextIndex(@),
                                   !.cumulative_gas_per_block = cumulative],
                 db |-> r.db]

\* The worker thread of environment e takes the next instruction of its queue.
Run(e) ==
    /\ e \in Running
    /\ environments[e].queue # <<>>
    /\ LET ins == Dequeue(environments[e].queue)
           turn == Turn([environments[e] EXCEPT !.queue = Rest(@)],
                        heap[environments[e].db], ins)
       IN  /\ environments' = [environments EXCEPT ![e] = turn.env]
           /\ heap' = [heap EXCEPT ![environments[e].db] = turn.db]
    /\ UNCHANGED <<evmState, counters, worker, queue, chan, bus, tasks, got, mode, env, nextId,
                   last, blockGas, receivers, parameters, agent, clients,
                   conversion, engine, connection, world>>

NextTwo ==
    \/ \E e \in Envs : Build(e)
    \/ \E e \in Envs : \E ins \in TwoInstructions : Send(e, ins)
    \/ \E e \in Envs : Run(e)

SpecTwo == InitDrop /\ [][NextTwo]_vars

\* ------------------------------------------------------------------ client construction

\* RevmMiddleware::new up to its recv: the wallet is made from the seed, AddAccount
\* for its address is sent with the outcome sender of a channel made for this client.
New(seed) ==
    /\ tasks["t3"].pc = "idle"
    /\ env = "built"
    /\ nextId <= MaxInstr
    /\ \A u \in Tasks : tasks[u].pc = "idle"
    /\ \E address \in Wallet(seed) :
          /\ queue' = Enqueue(queue, [id |-> nextId, chan |-> ClientOf("t3")]
                                        @@ Instr("AddAccount", address, 0, 0, NoTx))
          /\ clients' = Append(clients, [seed |-> seed, address |-> address,
                                          pc |-> "waiting", err |-> "None"])
    /\ tasks' = [tasks EXCEPT !["t3"] = [pc |-> "waiting", id |-> nextId]]
    /\ nextId' = nextId + 1
    /\ Quiet
    /\ UNCHANGED <<evmState, counters, worker, chan, bus, mode, env, blockGas, receivers,
                   parameters, agent, heap, environments,
                   conversion, engine, connection, world>>

\* outcome_receiver.recv()??: an Err outcome is the error of the construction,
\* any other outcome lets it return the client.
NewReturns ==
    /\ tasks["t3"].pc = "waiting"
    /\ chan[ClientOf("t3")] # <<>>
    /\ clients # <<>>
    /\ LET outcome == Head(chan[ClientOf("t3")])
           n == Len(clients)
       IN  /\ got' = [task |-> "t3", id |-> tasks["t3"].id, outcome |-> outcome]
           /\ clients' = [clients EXCEPT ![n] =
                             IF outcome.kind = "Error"
                                THEN [@ EXCEPT !.pc = "failed", !.err = outcome.err]
                                ELSE [@ EXCEPT !.pc = "built"]]
    /\ tasks' = [tasks EXCEPT !["t3"] = [pc |-> "idle", id |-> 0]]
    /\ chan' = [chan EXCEPT ![ClientOf("t3")] = Tail(@)]
    /\ last' = NoStep
    /\ UNCHANGED <<evmState, counters, worker, queue, bus, mode, env, nextId, blockGas,
                   receivers, parameters, agent, heap, environments,
                   conversion, engine, connection, world>>

NextNew ==
    \/ \E seed \in Seeds : New(seed)
    \/ NewReturns
    \/ DoAddAccount

SpecNew == InitDrop /\ [][NextNew]_vars

\* ------------------------------------------------------------------ block and gas policy

\* An environment built with a constant gas price, or with sampled blocks and gas.
InitPolicy ==
    /\ Built
    /\ mode = "sequential"
    /\ parameters \in {ConstantGas, RandomlySampled}
    /\ agent = NoAgent
    /\ Unused

\* One driver thread that transacts, asks for the gas price and the block number and
\* sets the gas price; it never sends BlockUpdate.
PolicyInstructions(t) ==
    CASE t = "t1" ->
            { Instr("Transaction", "A1", 0, 0, TxEnv(ClientOf(t), gas_price, "Success", 1)) }
      [] t = "t2" ->
            { Instr(q, "A1", 0, 0, NoTx) : q \in {"GasPrice", "BlockNumber"} }
            \cup { Instr("SetGasPrice", "A1", 5, 0, NoTx) }
      [] OTHER -> {}

NextPolicy ==
    \/ \E t \in Tasks : \E ins \in PolicyInstructions(t) : Submit(t, ins)
    \/ \E t \in Tasks : Recv(t)
    \/ DoTransaction
    \/ DoSetGasPrice
    \/ DoQuery

SpecPolicy == InitPolicy /\ [][NextPolicy]_vars

\* ------------------------------------------------------------------ subscribers

Subscribers == {"s1", "s2"}

\* event_broadcaster.subscribe(): a new receiver; it is sent the messages from now on.
Subscribe(s) ==
    /\ s \notin DOMAIN receivers
    /\ receivers' = [r \in DOMAIN receivers \cup {s} |->
                        IF r = s THEN [unread |-> <<>>, lagged |-> FALSE] ELSE receivers[r]]
    /\ Quiet
    /\ UNCHANGED <<evmState, counters, worker, queue, chan, bus, tasks, mode, env, nextId,
                   blockGas, elsewhere>>

\* The receiver is dropped.
Unsubscribe(s) ==
    /\ s \in DOMAIN receivers
    /\ receivers' = [r \in DOMAIN receivers \ {s} |-> receivers[r]]
    /\ Quiet
    /\ UNCHANGED <<evmState, counters, worker, queue, chan, bus, tasks, mode, env, nextId,
                   blockGas, elsewhere>>

\* receiver.recv(): a receiver that lost messages is told so once (Lagged), then
\* reads on from the oldest message the channel still holds.
Listen(s) ==
    /\ s \in DOMAIN receivers
    /\ IF receivers[s].lagged
          THEN receivers' = [receivers EXCEPT ![s].lagged = FALSE]
          ELSE /\ receivers[s].unread # <<>>
               /\ receivers' = [receivers EXCEPT ![s].unread = Tail(@)]
    /\ Quiet
    /\ UNCHANGED <<evmState, counters, worker, queue, chan, bus, tasks, mode, env, nextId,
                   blockGas, elsewhere>>

\* One driver thread that transacts and moves the block while subscribers come, read
\* and go.
BusInstructions(t) ==
    CASE t = "t1" ->
            { Instr("Transaction", "A1", 0, 0, TxEnv(ClientOf(t), gas_price, e, 1)) :
                 e \in {"Success", "Revert", "Err"} }
            \cup { Instr("BlockUpdate", "A1", n, 100, NoTx) : n \in {1, U64_MAX + 1} }
      [] OTHER -> {}

NextBus ==
    \/ \E t \in Tasks : \E ins \in BusInstructions(t) : Submit(t, ins)
    \/ \E t \in Tasks : Recv(t)
    \/ DoTransaction
    \/ DoBlockUpdate
    \/ DoStop
    \/ EnvStop
    \/ EnvStopped
    \/ \E s \in Subscribers : Subscribe(s)
    \/ \E s \in Subscribers : Unsubscribe(s)
    \/ \E s \in Subscribers : Listen(s)

SpecBus == InitDrop /\ [][NextBus]_vars

\* ------------------------------------------------------------------ SimpleArbitrageur

Topic == {"T1", "T2"}

\* revm Log { address, topics, .. }: a log has zero or more topics.
Logs == [address : Addr, topics : {<<>>} \cup { <<t>> : t \in Topic }]

\* SimulationEventFilter { address, topic }
EventFilters == [address : Addr, topic : Topic]

RECURSIVE Lists(_, _)
\* Vec<T> of at most n elements of S.
Lists(S, n) ==
    IF n = 0 THEN {<<>>}
    ELSE Lists(S, n - 1) \cup { Append(l, x) : l \in { m \in Lists(S, n - 1) : Len(m) = n - 1 }, x \in S }

\* Lists whose elements are all different.
Distinct(l) == \A i, j \in DOMAIN l : i # j => l[i] # l[j]

\* log.topics[0] of a log without topics: index out of bounds, the thread panics.
\* Only the logs that passed the address filter are indexed.
Panics(event_filters, logs) ==
    \E i \in DOMAIN event_filters : \E j \in DOMAIN logs :
        event_filters[i].address = logs[j].address /\ logs[j].topics = <<>>

\* What one filter keeps: the logs of its address, then of these the logs of its topic.
filtered_events(event_filter, logs) ==
    LET potential_events == SelectSeq(logs, LAMBDA log : event_filter.address = log.address)
    IN  SelectSeq(potential_events, LAMBDA log : event_filter.topic = log.topics[1])

RECURSIVE extend(_, _)
\* events.extend(filtered_events) for the filters in turn
extend(event_filters, logs) ==
    IF event_filters = <<>> THEN <<>>
    ELSE filtered_events(Head(event_filters), logs) \o extend(Tail(event_filters), logs)

filter_events(event_filters, logs) ==
    IF Panics(event_filters, logs)
       THEN [ok |-> FALSE, events |-> <<>>]
       ELSE [ok |-> TRUE, events |-> extend(event_filters, logs)]

\* The agent has its filters and has read a list of logs.
InitFilter ==
    /\ Built
    /\ mode = "sequential"
    /\ parameters = UserControlled
    /\ agent \in { [pc |-> "read", event_filters |-> fs, logs |-> ls, events |-> <<>>] :
                      fs \in { l \in Lists(EventFilters, MaxFilters) : Distinct(l) },
                      ls \in Lists(Logs, MaxLogs) }
    /\ Unused

\* arbitrageur.filter_events(unfiltered_events)
FilterEvents ==
    /\ agent.pc = "read"
    /\ LET r == filter_events(agent.event_filters, agent.logs)
       IN  agent' = [agent EXCEPT !.pc = IF r.ok THEN "filtered" ELSE "panicked",
                                  !.events = r.events]
    /\ UNCHANGED <<evmState, counters, worker, queue, chan, bus, tasks, got, mode, env, nextId,
                   last, blockGas, receivers, parameters, clients, heap, environments,
                   conversion, engine, connection, world>>

NextFilter == FilterEvents

SpecFilter == InitFilter /\ [][NextFilter]_vars

\* ------------------------------------------------------------------ convert_uint_to_u64

\* The environment and what is beside it, none of which a pure function touches.
core == <<evmState, counters, worker, queue, chan, bus, tasks, got, mode, env, nextId, last,
          blockGas, receivers, parameters, agent, clients, heap, environments>>

\* convert_uint_to_u64 is about to be called with any U256.
InitConvert ==
    /\ Built
    /\ mode = "sequential"
    /\ parameters = UserControlled
    /\ agent = NoAgent
    /\ conversion \in { [pc |-> "called", input |-> input, returned |-> [ok |-> FALSE, val |-> 0]] :
                           input \in 0 .. U256_MAX }
    /\ engine = NoEngine
    /\ connection = NoConnection
    /\ world = NoWorld

Convert ==
    /\ conversion.pc = "called"
    /\ conversion' = [conversion EXCEPT !.pc = "returned",
                                        !.returned = convert_uint_to_u64(conversion.input)]
    /\ UNCHANGED <<core, engine, connection, world>>

NextConvert == Convert

SpecConvert == InitConvert /\ [][NextConvert]_vars

\* ------------------------------------------------------------------ new_filter

MaxCalls == 3

\* ethers Filter, as far as it is told apart here: an optional address and an optional
\* first topic.
Filters == [address : {None} \cup { Some(a) : a \in Addr },
            topic0 : {None} \cup { Some(t) : t \in Topic }]

\* serde_json::to_string of a filter: the bytes of its fields in their order.
to_json(filter) ==
    << IF filter.address = None THEN 0 ELSE IF filter.address = Some("A1") THEN 1 ELSE 2,
       IF filter.topic0 = None THEN 0 ELSE IF filter.topic0 = Some("T1") THEN 1 ELSE 2 >>

RECURSIVE Sha256(_)
\* The digest of a byte string as a U256; bytes that differ give digests that differ.
Sha256(bytes) ==
    IF bytes = <<>>
       THEN 7
       ELSE (Sha256(SubSeq(bytes, 1, Len(bytes) - 1)) * 33 + bytes[Len(bytes)] + 1)
               % (U256_MAX + 1)

\* EventBroadcaster::add_sender: one more sender the broadcaster sends the logs to.
add_sender(event_broadcaster, event_sender) == Append(event_broadcaster, event_sender)

\* HashMap::insert: the value under the key, in place of any value the key had.
insert(map, id, filter_receiver) ==
    { e \in map : e.id # id } \cup
        {[id |-> id, filter |-> filter_receiver.filter, receiver |-> filter_receiver.receiver]}

\* A client whose connection has no filter yet.
InitNewFilter ==
    /\ Built
    /\ mode = "sequential"
    /\ parameters = UserControlled
    /\ agent = NoAgent
    /\ conversion = NoConversion
    /\ engine = NoEngine
    /\ connection = [pc |-> "open", event_broadcaster |-> <<>>, filter_receivers |-> {},
                     calls |-> <<>>]
    /\ world = NoWorld

\* new_filter(FilterKind::Logs(filter)): the id is the digest of the serialized filter;
\* the sender of a fresh channel goes to the broadcaster and its receiver into
\* filter_receivers under the id.  Channels are numbered in the order they are made.
new_filter(filter) ==
    /\ connection.pc = "open"
    /\ Len(connection.calls) < MaxCalls
    /\ LET id == Sha256(to_json(filter))
           channel == Len(connection.calls) + 1
           filter_receiver == [filter |-> filter, receiver |-> channel]
       IN  connection' =
               [connection EXCEPT
                   !.event_broadcaster = add_sender(@, channel),
                   !.filter_receivers = insert(@, id, filter_receiver),
                   !.calls = Append(@, [filter |-> filter, id |-> id])]
    /\ UNCHANGED <<core, conversion, engine, world>>

NextNewFilter == \E filter \in Filters : new_filter(filter)

SpecNewFilter == InitNewFilter /\ [][NextNewFilter]_vars

\* ------------------------------------------------------------------ Engine

MaxEvents == 3
MaxExecutes == 3

\* enum ControlFlow
ControlFlow == {"Halt", "Continue"}

\* An event of the stream, with what Processor::process returns for it.
StreamEvents == [data : {"a", "b"}, process : ControlFlow \cup {"Err"}]

\* A behavior, by what it does when asked: how startup ends, what get_stream of its
\* processor gives, and the events of the stream.
Behaviors == [startup : {"Ok", "Err"}, get_stream : {"None", "Some", "Err"},
              stream : Lists(StreamEvents, MaxEvents)]

\* Engine::new(behavior): the behavior is there, no processor and no stream yet.
EngineNew(behavior) ==
    [pc |-> "idle", script |-> behavior, behavior |-> TRUE, processor |-> FALSE,
     event_stream |-> None, stream |-> <<>>, startups |-> 0, processed |-> <<>>,
     nested |-> FALSE, process_result |-> None, logged |-> FALSE, returned |-> <<>>]

\* A loop that goes to the next event whatever process returned.
go_on(flow) == "next"

\* The match on what process returned: Halt breaks the loop, Continue goes on.
after(flow) == IF flow = "Halt" THEN "break" ELSE "next"

\* The processing task ends with result: on Ok the processor is stored back; a Process
\* that Start ran has its failure logged and Start returns Ok.
ProcessReturns(e, result) ==
    [e EXCEPT !.pc = "idle",
              !.stream = <<>>,
              !.processor = (result = "Ok"),
              !.process_result = Some(result),
              !.nested = FALSE,
              !.logged = (e.nested /\ result = "Err"),
              !.returned = Append(@, IF e.nested
                                        THEN [instruction |-> "Start", result |-> "Ok"]
                                        ELSE [instruction |-> "Process", result |-> result])]

\* An engine for any behavior.
InitEngine ==
    /\ Built
    /\ mode = "sequential"
    /\ parameters = UserControlled
    /\ agent = NoAgent
    /\ conversion = NoConversion
    /\ engine \in { EngineNew(behavior) : behavior \in Behaviors }
    /\ connection = NoConnection
    /\ world = NoWorld

\* execute(MachineInstruction::Start): takes the behavior, runs startup in a task, asks
\* the processor for its stream and, if there is one, runs Process.
Start ==
    /\ engine.pc = "idle"
    /\ Len(engine.returned) < MaxExecutes
    /\ engine' =
          IF ~engine.behavior
             THEN [engine EXCEPT !.pc = "panicked"]
             ELSE IF engine.script.startup = "Err" \/ engine.script.get_stream = "Err"
             THEN [engine EXCEPT !.behavior = FALSE,
                                 !.startups = @ + 1,
                                 !.returned = Append(@, [instruction |-> "Start",
                                                         result |-> "Err"])]
             ELSE IF engine.script.get_stream = "None"
             THEN [engine EXCEPT !.behavior = FALSE,
                                 !.startups = @ + 1,
                                 !.returned = Append(@, [instruction |-> "Start",
                                                         result |-> "Ok"])]
             ELSE [engine EXCEPT !.behavior = FALSE,
                                 !.startups = @ + 1,
                                 !.pc = "processing",
                                 !.nested = TRUE,
                                 !.stream = engine.script.stream]
    /\ UNCHANGED <<core, conversion, connection, world>>

\* execute(MachineInstruction::Process): takes the processor and the stream and loops
\* over the events in a task.
Process ==
    /\ engine.pc = "idle"
    /\ Len(engine.returned) < MaxExecutes
    /\ engine' =
          IF ~engine.processor
             THEN [engine EXCEPT !.pc = "panicked"]
             ELSE IF engine.event_stream = None
             THEN [engine EXCEPT !.pc = "panicked", !.processor = FALSE]
             ELSE [engine EXCEPT !.pc = "processing",
                                 !.processor = FALSE,
                                 !.event_stream = None,
                                 !.stream = engine.event_stream.val]
    /\ UNCHANGED <<core, conversion, connection, world>>

\* One turn of the loop: the next event of the stream goes to process.
ProcessEvent ==
    /\ engine.pc = "processing"
    /\ engine.stream # <<>>
    /\ LET event == Head(engine.stream)
           handed == [engine EXCEPT !.processed = Append(@, event), !.stream = Tail(@)]
       IN  engine' =
              IF event.process = "Err"
                 THEN ProcessReturns(handed, "Err")
                 ELSE IF after(event.process) = "break"
                 THEN ProcessReturns(handed, "Ok")
                 ELSE handed
    /\ UNCHANGED <<core, conversion, connection, world>>

\* The stream has ended: the loop is over.
StreamEnds ==
    /\ engine.pc = "processing"
    /\ engine.stream = <<>>
    /\ engine' = ProcessReturns(engine, "Ok")
    /\ UNCHANGED <<core, conversion, connection, world>>

NextEngine == Start \/ Process \/ ProcessEvent \/ StreamEnds

SpecEngine == InitEngine /\ [][NextEngine]_vars

\* ------------------------------------------------------------------ TimedMessage

MaxMessages == 6

Agents == {"agent_ping", "agent_pong"}

Data == {"ping", "pong"}

\* TimedMessage::new(delay, receive_data, send_data, max_count, startup_message): no
\* messager yet and a count of 0.  next is the place on the bus of the next message
\* the stream of its messager gives.
TimedMessage(receive_data, send_data, max_count, startup_message) ==
    [receive_data |-> receive_data, send_data |-> send_data, max_count |-> max_count,
     startup_message |-> startup_message, count |-> 0, state |-> "new", next |-> 1]

TimedMessages ==
    { TimedMessage(r, s, m, st) :
          r \in Data, s \in Data,
          m \in {None} \cup { Some(n) : n \in 0 .. 2 },
          st \in {None, Some("ping")} }

\* max_count.unwrap_or(u64::MAX)
unwrap_or(max_count) == IF max_count = None THEN U64_MAX ELSE max_count.val

\* Messager::send of a message To::All: the message is behind every message sent
\* before it, and every messager made before it was sent gets it from its stream, the
\* sender's own included.
send_all(messages, from, data) == Append(messages, [from |-> from, data |-> data])

\* The behaviors of ping_pong_two_agent.
PingPong ==
    [a \in Agents |->
        IF a = "agent_ping"
           THEN TimedMessage("pong", "ping", Some(2), Some("ping"))
           ELSE TimedMessage("ping", "pong", Some(2), None)]

\* A world of two agents with one TimedMessage each, and the messager of the outside
\* world, made before the world runs.
InitWorld ==
    /\ Built
    /\ mode = "sequential"
    /\ parameters = UserControlled
    /\ agent = NoAgent
    /\ conversion = NoConversion
    /\ engine = NoEngine
    /\ connection = NoConnection
    /\ world \in { [pc |-> "running", agents |-> agents, messages |-> <<>>, idx |-> 0] :
                      agents \in [Agents -> TimedMessages] }

\* TimedMessage::startup: keeps the messager, sends the startup message if there is
\* one, and returns the stream of the messager.
startup(a) ==
    /\ world.pc = "running"
    /\ world.agents[a].state = "new"
    /\ LET behavior == world.agents[a]
       IN  world' =
              [world EXCEPT
                  !.agents[a].state = "running",
                  !.messages = IF behavior.startup_message = None
                                  THEN @
                                  ELSE send_all(@, a, behavior.startup_message.val)]
    /\ UNCHANGED <<core, conversion, engine, connection>>

\* TimedMessage::process of the next event of the stream: an event with receive_data
\* is answered with send_data and counted; the behavior halts if the count is then
\* max_count.
process(a) ==
    /\ world.pc = "running"
    /\ world.agents[a].state = "running"
    /\ world.agents[a].next <= Len(world.messages)
    /\ LET behavior == world.agents[a]
           event == world.messages[behavior.next]
           matches == event.data = behavior.receive_data
           count == IF matches THEN behavior.count + 1 ELSE behavior.count
       IN  /\ matches => Len(world.messages) < MaxMessages
           /\ world' =
                 [world EXCEPT
                     !.messages = IF matches THEN send_all(@, a, behavior.send_data) ELSE @,
                     !.agents[a].count = count,
                     !.agents[a].next = @ + 1,
                     !.agents[a].state = IF count = unwrap_or(behavior.max_count)
                                            THEN "halted"
                                            ELSE "running"]
    /\ UNCHANGED <<core, conversion, engine, connection>>

\* World::run returns when every behavior has halted.
run ==
    /\ world.pc = "running"
    /\ \A a \in Agents : world.agents[a].state = "halted"
    /\ world' = [world EXCEPT !.pc = "ran"]
    /\ UNCHANGED <<core, conversion, engine, connection>>

\* The outside world takes the next message from its stream.
outside_world ==
    /\ world.pc = "ran"
    /\ world.idx < Len(world.messages)
    /\ world' = [world EXCEPT !.idx = @ + 1]
    /\ UNCHANGED <<core, conversion, engine, connection>>

NextWorld ==
    \/ \E a \in Agents : startup(a)
    \/ \E a \in Agents : process(a)
    \/ run
    \/ outside_world

\* The runtime runs every task that can run.
SpecWorld == InitWorld /\ [][NextWorld]_vars /\ WF_vars(NextWorld)

\* ------------------------------------------------------------------ properties

\* A step in which the worker takes an instruction from the queue.
WorkerTakes == worker = "running" /\ queue # <<>> /\ queue' = Tail(queue)

\* The outcomes a step sends on reply channel c.
Sent(c) == SubSeq(chan'[c], Len(chan[c]) + 1, Len(chan'[c]))

\* The outcome variant that answers an instruction of a kind.
Expected(kind) ==
    CASE kind = "AddAccount" -> "AddAccountCompleted"
      [] kind = "BlockUpdate" -> "BlockUpdateCompleted"
      [] kind \in {"Load", "Store", "Deal", "Access"} -> "CheatcodeReturn"
      [] kind = "Call" -> "CallCompleted"
      [] kind = "SetGasPrice" -> "SetGasPriceCompleted"
      [] kind = "Transaction" -> "TransactionCompleted"
      [] kind \in QueryKinds -> "QueryReturn"
      [] kind = "Stop" -> "StopCompleted"

\* C1: every instruction the worker takes from the queue is answered with exactly
\* one outcome on its own reply channel - the variant of its kind or an error -
\* and nothing is sent on any other reply channel: never none, never two.
C1_ExactlyOneOutcome ==
    [][WorkerTakes =>
         LET ins == Head(queue)
         IN  /\ Len(Sent(ins.chan)) = 1
             /\ Sent(ins.chan)[1].id = ins.id
             /\ Sent(ins.chan)[1].kind \in {Expected(ins.kind), "Error"}
             /\ \A c \in DOMAIN chan \ {ins.chan} : Sent(c) = <<>>]_vars

\* C2: an outcome is delivered only to the caller that sent its instruction: what a
\* caller receives is the outcome of the instruction it is waiting for.
C2_OwnOutcome ==
    (got.task # "none" /\ got.id # 0) => got.outcome.id = got.id

\* C3: AddAccount for a fresh address replies AddAccountCompleted; AddAccount for an
\* address that is registered replies AccountCreationError and leaves the account
\* as it is (balance, nonce, storage).
C3_SecondAddAccount ==
    [][(WorkerTakes /\ Head(queue).kind = "AddAccount") =>
         LET ins == Head(queue)
         IN  /\ Len(Sent(ins.chan)) = 1
             /\ IF ~accounts[ins.a].exists
                   THEN /\ Sent(ins.chan)[1].kind = "AddAccountCompleted"
                        /\ accounts'[ins.a] = DefaultAccount
                   ELSE /\ Sent(ins.chan)[1].err = "AccountCreationError"
                        /\ accounts'[ins.a] = accounts[ins.a]]_vars

C5_ReceiptCounters ==
    (last.kind = "Transaction" /\ last.outcome.kind = "TransactionCompleted") =>
        LET receipt == last.outcome.receipt
        IN  /\ blockGas # <<>>
            /\ receipt.transaction_index = Len(blockGas) - 1
            /\ receipt.cumulative_gas_per_block = Sum(blockGas)
            /\ receipt.cumulative_gas_per_block
                  >= Sum(SubSeq(blockGas, 1, Len(blockGas) - 1))

\* The third transaction of a block got its receipt.
C5_Witness ==
    /\ last.kind = "Transaction"
    /\ last.outcome.kind = "TransactionCompleted"
    /\ last.outcome.receipt.transaction_index = 2
    /\ last.outcome.receipt.cumulative_gas_per_block = 4

\* C6: BlockUpdate(n, t) replies BlockUpdateCompleted with the data of the block it
\* ends (its number, the number of transactions and the gas committed in it), sets
\* the block number to n and the timestamp to t, and zeroes both counters.
C6_BlockUpdate ==
    [][(WorkerTakes /\ Head(queue).kind = "BlockUpdate") =>
         LET ins == Head(queue)
         IN  /\ Len(Sent(ins.chan)) = 1
             /\ Sent(ins.chan)[1].kind = "BlockUpdateCompleted"
             /\ Sent(ins.chan)[1].receipt =
                   [block_number |-> block_number,
                    transaction_index |-> transaction_index,
                    cumulative_gas_per_block |-> cumulative_gas_per_block]
             /\ block_number' = ins.x
             /\ block_timestamp' = ins.y
             /\ transaction_index' = 0
             /\ cumulative_gas_per_block' = 0]_vars

\* The receipt of the first transaction committed since a BlockUpdate is the last
\* step's outcome.
FirstAfterBlockUpdate ==
    /\ last.kind = "Transaction"
    /\ last.outcome.kind = "TransactionCompleted"
    /\ Len(blockGas) = 1
    /\ block_timestamp = 100

\* C7 (as stated): in the receipt of the first transaction committed after a
\* BlockUpdate both counters are 0.
C7_BothCountersZero ==
    FirstAfterBlockUpdate =>
        /\ last.outcome.receipt.transaction_index = 0
        /\ last.outcome.receipt.cumulative_gas_per_block = 0

\* C7 (amended): in the receipt of the first transaction committed after a
\* BlockUpdate the transaction_index is 0 and cumulative_gas_per_block is the gas
\* used by that transaction alone.
C7_CountersRestart ==
    FirstAfterBlockUpdate =>
        /\ last.outcome.receipt.transaction_index = 0
        /\ last.outcome.receipt.cumulative_gas_per_block = last.outcome.result.gas_used

\* A block with one commit was ended by a BlockUpdate to block 1, and the next
\* transaction used 2 gas.
C7_Witness ==
    /\ FirstAfterBlockUpdate
    /\ last.outcome.result.gas_used = 2
    /\ block_number = 1
    /\ accounts["A1"].nonce = 2

\* The Events a step puts on the bus.
Events == SelectSeq(SubSeq(bus', Len(bus) + 1, Len(bus')), LAMBDA m : m.kind = "Event")

\* C8: a Transaction that executes successfully puts exactly one Event with its logs
\* on the bus, before its TransactionCompleted outcome is sent; an instruction of
\* any other kind puts no Event on the bus.
C8_OneEventBeforeReply ==
    [][WorkerTakes =>
         LET ins == Head(queue)
         IN  /\ (ins.kind = "Transaction" /\ ins.tx.exec = "Success") =>
                   /\ Events = <<[kind |-> "Event", logs |-> ExecutionResult(ins.tx).logs]>>
                   /\ Len(Sent(ins.chan)) = 1
                   /\ Sent(ins.chan)[1].kind = "TransactionCompleted"
                   /\ last'.sends = <<"event", "reply">>
             /\ ins.kind # "Transaction" => Events = <<>>]_vars

\* The ids of the instructions of connection c that wait in a queue q.
QueuedOf(q, c) == { q[i].id : i \in { j \in DOMAIN q : q[j].chan = c } }

\* The ids of the outcomes that wait on a reply channel ch.
WaitingOn(ch) == { ch[i].id : i \in DOMAIN ch }

\* C9: the instructions of one connection are taken by the worker in the order they
\* were sent, whatever other connections send in between, and their outcomes are
\* received in that order: the worker takes the oldest instruction, and a received
\* outcome is older than every outcome and instruction of its connection that waits.
C9_Fifo ==
    [][/\ WorkerTakes =>
            /\ last'.id = Head(queue).id
            /\ \A id \in QueuedOf(queue', Head(queue).chan) : last'.id < id
       /\ (got'.task # "none" /\ got'.id # 0) =>
            LET c == ClientOf(got'.task)
            IN  /\ got'.outcome = Head(chan[c])
                /\ \A id \in WaitingOn(chan'[c]) \cup QueuedOf(queue', c) :
                      got'.outcome.id < id]_vars

\* The first outcome of c1 was received while its second waits, and an instruction
\* of c2 was sent between the two.
C9_Witness ==
    /\ got.task \in {"t1", "t2"}
    /\ got.outcome.id = 1
    /\ WaitingOn(chan["c1"]) = {3}
    /\ WaitingOn(chan["c2"]) = {2}

\* C10: the database, the block environment and the counters change only in a step
\* in which the worker applies one whole instruction, the oldest of the queue, so the
\* state is that of the instructions applied one after the other in queue order; a
\* Query or a cheatcode read is such a step, changes nothing and reports the value
\* the database holds between two instructions.
C10_Atomic ==
    [][/\ (evmState' # evmState \/ counters' # counters) =>
            /\ WorkerTakes
            /\ last'.id = Head(queue).id
            /\ \A i \in DOMAIN queue' : queue'[i].id > Head(queue).id
       /\ (WorkerTakes /\ Head(queue).kind \in {"Balance", "TransactionCount", "Load", "Access"}) =>
            LET ins == Head(queue)
                account == accounts[ins.a]
            IN  /\ evmState' = evmState
                /\ counters' = counters
                /\ Len(Sent(ins.chan)) = 1
                /\ account.exists =>
                      Sent(ins.chan)[1].val =
                         CASE ins.kind = "Balance" -> to_string(account.balance)
                           [] ins.kind = "TransactionCount" -> to_string(account.nonce)
                           [] ins.kind = "Load" -> [op |-> "Load", value |-> Load(account, ins.y)]
                           [] ins.kind = "Access" -> [op |-> "Access", account |-> Access(account)]]_vars

\* Callers in parallel: a transaction of c1 was applied while a read of the same
\* account waits behind it in the queue.
C10_Witness ==
    /\ mode = "concurrent"
    /\ last.kind = "Transaction"
    /\ last.outcome.kind = "TransactionCompleted"
    /\ queue # <<>>
    /\ Head(queue).kind \in {"TransactionCount", "Access"}

\* C11: when the receiver of an instruction's reply channel is dropped before the
\* worker writes the outcome, the worker stays alive and goes on with the
\* instructions that follow, whatever the kind of the instruction.
C11_DroppedReply ==
    [][(WorkerTakes /\ Head(queue).chan = Gone) => worker' = "running"]_vars

\* C12: for a Call and for a Transaction alike an error of the interpreter becomes an
\* EVMError outcome on the reply channel of the instruction and the worker goes on;
\* the worker thread ends only on Stop.
C12_ExecutionErrors ==
    [][WorkerTakes =>
         LET ins == Head(queue)
         IN  /\ (ins.kind \in {"Call", "Transaction"} /\ ins.tx.exec = "Err") =>
                   /\ Len(Sent(ins.chan)) = 1
                   /\ Sent(ins.chan)[1].err = "EVMError"
                   /\ worker' = "running"
             /\ worker' # "running" => ins.kind = "Stop"]_vars

\* C13: once the worker has processed Stop, no submission of a client is accepted
\* into the queue any more (it fails with a closed-channel error instead of being
\* queued and left unanswered).
C13_NoSubmissionAfterStop ==
    [][worker = "stopped" => Len(queue') <= Len(queue)]_vars

\* C14: the end of the worker thread strands no client: a client that waits for a
\* reply while the worker thread has ended has an outcome to take from its channel
\* (only the worker writes outcomes, so a client that waits on an empty channel of
\* an ended worker waits forever).
C14_NoStrandedClient ==
    \A t \in Tasks :
        ~(worker # "running" /\ tasks[t].pc = "waiting" /\ chan[ClientOf(t)] = <<>>)

\* C15: on Stop the worker publishes StopSignal, then replies StopCompleted with the
\* database as the instructions processed before the Stop left it, and ends its
\* loop: no step of the worker follows the Stop, so an instruction queued behind it
\* is never processed.
C15_Stop ==
    /\ last.kind = "Stop" =>
          /\ last.sends = <<"stop_signal", "reply">>
          /\ bus # <<>>
          /\ bus[Len(bus)].kind = "StopSignal"
          /\ last.outcome.kind = "StopCompleted"
          /\ last.outcome.val = accounts
          /\ worker = "stopped"
    /\ (worker = "stopped" /\ last # NoStep) => last.kind = "Stop"

\* The database returned by Stop holds the account dealt 1000, and an instruction
\* sent by a concurrent caller waits behind the Stop.
C15_Witness ==
    /\ last.kind = "Stop"
    /\ last.outcome.val["A1"].balance = 1000
    /\ queue # <<>>

\* C16: when the Environment is gone and the weak sender of a client does not
\* upgrade, an operation of the client fails at once with the environment-offline
\* error: nothing is put on the queue and no caller starts to wait for a reply.
C16_OfflineFailsFast ==
    [][env = "dropped" =>
         /\ Len(queue') <= Len(queue)
         /\ \A t \in Tasks : tasks[t].pc = "idle" => tasks'[t].pc = "idle"
         /\ (got'.task # "none" /\ got'.id = 0) =>
               /\ got'.outcome.err = "EnvironmentOffline"
               /\ queue' = queue
               /\ chan' = chan]_vars

\* A caller got the environment-offline error.
C16_Witness ==
    /\ env = "dropped"
    /\ got.task # "none"
    /\ got.outcome.err = "EnvironmentOffline"

\* The (account, key) slots.
Slots == Addr \X Key

\* C17: after Store(a, k, v) on an existing account Load(a, k) returns v until the
\* next Store to (a, k): the Store changes what Load returns for no other slot, and
\* no other instruction changes what Load returns for a slot of an existing account;
\* a slot never written loads 0.
C17_StoreLoad ==
    [][WorkerTakes =>
         LET ins == Head(queue)
             written == IF ins.kind = "Store" /\ accounts[ins.a].exists
                           THEN {<<ins.a, ins.y>>} ELSE {}
         IN  /\ \A slot \in written : Load(accounts'[slot[1]], slot[2]) = ins.x
             /\ \A slot \in Slots \ written :
                   Load(accounts'[slot[1]], slot[2]) = Load(accounts[slot[1]], slot[2])
             /\ (ins.kind = "Load" /\ accounts[ins.a].exists) =>
                   /\ Len(Sent(ins.chan)) = 1
                   /\ Sent(ins.chan)[1].val.value =
                         IF ins.y \in DOMAIN accounts[ins.a].storage
                            THEN accounts[ins.a].storage[ins.y] ELSE 0]_vars

\* C18: a cheatcode (Load, Store, Deal, Access) or a Balance or TransactionCount
\* query for an address without account is answered AccountDoesNotExistError,
\* creates no account and leaves the database as it is; the Balance of a freshly
\* added account is answered "0".
C18_MissingAccount ==
    [][WorkerTakes =>
         LET ins == Head(queue)
         IN  /\ (/\ ins.kind \in {"Load", "Store", "Deal", "Access", "Balance", "TransactionCount"}
                 /\ ~accounts[ins.a].exists) =>
                   /\ Len(Sent(ins.chan)) = 1
                   /\ Sent(ins.chan)[1].err = "AccountDoesNotExistError"
                   /\ accounts' = accounts
             /\ (ins.kind = "Balance" /\ accounts[ins.a] = DefaultAccount) =>
                   /\ Len(Sent(ins.chan)) = 1
                   /\ Sent(ins.chan)[1].kind = "QueryReturn"
                   /\ Sent(ins.chan)[1].val = <<0>>]_vars

\* A write to the address without account was answered with the error.
C18_Witness ==
    /\ last.kind \in {"Store", "Deal"}
    /\ last.ins.a = "A2"
    /\ last.outcome.err = "AccountDoesNotExistError"
    /\ ~accounts["A2"].exists
    /\ accounts["A1"].balance > 0

\* C19: Deal(a, x) on an existing account adds x to the balance of a and changes
\* nothing else, so that after any sequence of Deals the balance is the sum of the
\* dealt amounts plus the initial balance; Balance(a) is answered with the decimal
\* string of the balance.
C19_Deal ==
    [][WorkerTakes =>
         LET ins == Head(queue)
         IN  /\ (ins.kind = "Deal" /\ accounts[ins.a].exists) =>
                   /\ accounts'[ins.a].balance = accounts[ins.a].balance + ins.x
                   /\ accounts' = [accounts EXCEPT ![ins.a].balance = accounts'[ins.a].balance]
             /\ (ins.kind = "Balance" /\ accounts[ins.a].exists) =>
                   /\ Len(Sent(ins.chan)) = 1
                   /\ FromDigits(Sent(ins.chan)[1].val) = accounts[ins.a].balance]_vars

\* C20: a Call, whether its execution succeeds or fails, leaves the database, the
\* block number and timestamp and both counters as they were and puts no Event on
\* the bus.
C20_CallCommitsNothing ==
    [][(WorkerTakes /\ Head(queue).kind = "Call") =>
         /\ accounts' = accounts
         /\ block_number' = block_number
         /\ block_timestamp' = block_timestamp
         /\ counters' = counters
         /\ Events = <<>>
         /\ bus' = bus]_vars

\* A successful Call was answered after a transaction had been committed.
C20_Witness ==
    /\ last.kind = "Call"
    /\ last.outcome.kind = "CallCompleted"
    /\ last.outcome.result.kind = "Success"
    /\ accounts["A1"].nonce = 1
    /\ transaction_index = 1

\* A receiver that loses a message at the next send.
Behind(rx) == \E r \in DOMAIN rx : Len(rx[r].unread) = Capacity

\* C21: the worker never blocks on the broadcast bus. A Transaction that the worker
\* publishes while no subscriber is present, or while a subscriber has fallen behind,
\* is committed, advances both counters and is answered TransactionCompleted, and
\* the worker goes on; a Stop published while nobody listens is answered
\* StopCompleted. A receiver that has fallen behind loses its oldest message.
C21_NeverBlocksOnBus ==
    [][(WorkerTakes /\ bus' # bus /\ (DOMAIN receivers = {} \/ Behind(receivers))) =>
         LET ins == Head(queue)
         IN  /\ ins.kind \in {"Transaction", "Stop"}
             /\ Len(Sent(ins.chan)) = 1
             /\ ins.kind = "Transaction" =>
                   /\ Sent(ins.chan)[1].kind = "TransactionCompleted"
                   /\ accounts' = Touched(accounts, ins.tx)
                   /\ transaction_index' = transaction_index + 1
                   /\ cumulative_gas_per_block' =
                         (cumulative_gas_per_block + ins.tx.gas_used) % (U256_MAX + 1)
                   /\ worker' = "running"
             /\ ins.kind = "Stop" => Sent(ins.chan)[1].kind = "StopCompleted"
             /\ \A r \in DOMAIN receivers :
                   /\ r \in DOMAIN receivers'
                   /\ Len(receivers'[r].unread) <= Capacity
                   /\ Len(receivers[r].unread) = Capacity => receivers'[r].lagged]_vars

\* A transaction was answered while the only subscriber had lost a message.
C21_Witness ==
    /\ last.kind = "Transaction"
    /\ last.outcome.kind = "TransactionCompleted"
    /\ DOMAIN receivers = {"s1"}
    /\ receivers["s1"].lagged
    /\ transaction_index = 3

\* A log matches a filter: its address is the filter's and its first topic is the
\* filter's topic.
Matches(event_filters, log) ==
    \E i \in DOMAIN event_filters :
        /\ log.address = event_filters[i].address
        /\ log.topics # <<>>
        /\ log.topics[1] = event_filters[i].topic

\* C22: for every list of logs and every set of filters, filter_events returns
\* exactly the sublist of the logs, in their order and each at most once, that match
\* a filter: a log that matches no filter is removed, and a list in which every log
\* matches is returned unchanged.
C22_Filtering ==
    agent.pc \in {"filtered", "panicked"} =>
        /\ agent.pc = "filtered"
        /\ agent.events = SelectSeq(agent.logs, LAMBDA log : Matches(agent.event_filters, log))

\* C23: when the Environment, and with it every strong handle to the sender, is
\* dropped without a Stop, the worker goes on taking the instructions that are
\* queued; the end-of-stream ends its loop only when none is left, and the worker
\* thread does terminate: it does not wait on an empty queue without senders.
C23_EndOfStream ==
    /\ [][(worker # "ended" /\ worker' = "ended") =>
             (worker = "running" /\ env = "dropped" /\ queue = <<>>)]_vars
    /\ [][(env = "dropped" /\ worker = "running" /\ queue # <<>> /\ worker' # worker) =>
             (WorkerTakes /\ worker' \in {"failed", "stopped"})]_vars
    /\ (env = "dropped") ~> (worker # "running")

\* After the drop the worker has applied a transaction that was queued, and another
\* instruction still waits.
C23_Witness ==
    /\ env = "dropped"
    /\ worker = "running"
    /\ last.kind = "Transaction"
    /\ last.outcome.kind = "TransactionCompleted"
    /\ queue # <<>>
    /\ \A i \in DOMAIN queue : queue[i].kind # "Stop"

\* C24: in a freshly built environment get_block_number returns 0 and
\* get_block_timestamp returns 1; after update_block(n, t) returned Ok they return n
\* and t, and go on doing so until the next update_block, whatever Calls,
\* Transactions, cheatcodes and queries are processed in between: only update_block
\* moves the block, to the n and t it was given, and each query is answered with an
\* outcome from which the client reads the block number, or the timestamp, of the
\* environment.
C24_BlockQueries ==
    /\ block_number = 0 /\ block_timestamp = 1
    /\ [][(block_number' # block_number \/ block_timestamp' # block_timestamp) =>
             (WorkerTakes /\ Head(queue).kind = "BlockUpdate")]_vars
    /\ [][WorkerTakes =>
             LET ins == Head(queue)
             IN  /\ (/\ ins.kind = "BlockUpdate"
                     /\ Len(Sent(ins.chan)) = 1
                     /\ update_block(Sent(ins.chan)[1]).ok) =>
                        (block_number' = ins.x /\ block_timestamp' = ins.y)
                 /\ ins.kind = "BlockNumber" =>
                        /\ Len(Sent(ins.chan)) = 1
                        /\ get_block_number(Sent(ins.chan)[1]) = [ok |-> TRUE, val |-> block_number]
                 /\ ins.kind = "BlockTimestamp" =>
                        /\ Len(Sent(ins.chan)) = 1
                        /\ get_block_timestamp(Sent(ins.chan)[1]) =
                              [ok |-> TRUE, val |-> block_timestamp]]_vars

\* C25: set_gas_price changes the price that get_gas_price answers only when the gas
\* policy of the environment is user-controlled: under another policy SetGasPrice
\* leaves the price as it is, and under Constant(price) every GasPrice query,
\* before and after every transaction, is answered with that price.
C25_GasPolicy ==
    [][WorkerTakes =>
         LET ins == Head(queue)
         IN  /\ (ins.kind = "SetGasPrice" /\ parameters.gas_settings.kind # "UserControlled") =>
                   gas_price' = gas_price
             /\ (ins.kind = "GasPrice" /\ parameters.gas_settings.kind = "Constant") =>
                   /\ Len(Sent(ins.chan)) = 1
                   /\ Sent(ins.chan)[1].kind = "QueryReturn"
                   /\ FromDigits(Sent(ins.chan)[1].val) = parameters.gas_settings.price]_vars

\* The block in which the sampler puts the i-th committed transaction (i = 0, 1, ..):
\* the first k_0 are in block 0, the next k_1 in block 1, and so on.
BlockOf(i) ==
    CHOOSE b \in 0 .. Len(SampledTransactions) - 1 :
        /\ Sum(SubSeq(SampledTransactions, 1, b)) <= i
        /\ i < Sum(SubSeq(SampledTransactions, 1, b + 1))

\* C26: under the RandomlySampled block policy the worker itself moves the block
\* after the sampled number of committed transactions, without any BlockUpdate: the
\* receipt of the i-th committed transaction carries the block number in which the
\* sampled counts k_0, k_1, .. put it.
C26_SampledBlocks ==
    (/\ parameters.block_settings.kind = "RandomlySampled"
     /\ last.kind = "Transaction"
     /\ last.outcome.kind = "TransactionCompleted") =>
        last.outcome.receipt.block_number = BlockOf(accounts["A1"].nonce - 1)

\* C27: the address of a client built with a seed is a function of the seed (two
\* constructions with one seed have one address); the construction sends AddAccount
\* for that address and returns the client only when the reply is no error, so the
\* construction of a client whose address is registered already fails with
\* AccountCreationError.
C27_SeededClient ==
    \A i \in DOMAIN clients :
        /\ \A j \in DOMAIN clients :
              (clients[i].seed # "None" /\ clients[j].seed = clients[i].seed) =>
                  clients[j].address = clients[i].address
        /\ (clients[i].pc = "waiting" /\ queue # <<>>) =>
              (Head(queue).kind = "AddAccount" /\ Head(queue).a = clients[i].address)
        /\ clients[i].pc # "waiting" =>
              IF \E j \in 1 .. i - 1 : clients[j].address = clients[i].address
                 THEN clients[i].pc = "failed" /\ clients[i].err = "AccountCreationError"
                 ELSE clients[i].pc = "built" /\ accounts[clients[i].address].exists

\* A second client was constructed with the seed of the first, and the construction
\* returned the error.
C27_Witness ==
    /\ got.task = "t3"
    /\ got.outcome.err = "AccountCreationError"
    /\ \E i \in DOMAIN clients :
          /\ i > 1
          /\ clients[i].seed = clients[1].seed
          /\ clients[i].pc = "failed"

\* What an environment is to its clients: the database behind its handle, its
\* block, gas price and counters, the outcomes it sent and its broadcasts.
View(e) ==
    [db |-> heap[environments[e].db],
     block_number |-> environments[e].block_number,
     block_timestamp |-> environments[e].block_timestamp,
     gas_price |-> environments[e].gas_price,
     transaction_index |-> environments[e].transaction_index,
     cumulative_gas_per_block |-> environments[e].cumulative_gas_per_block,
     outcomes |-> environments[e].outcomes,
     bus |-> environments[e].bus]

\* C28: environments that coexist are isolated: a step in which an instruction is
\* sent to one environment, or in which its worker handles one, leaves the database,
\* the block number and timestamp, the gas price, the counters, the outcomes and
\* the broadcasts of every other environment as they were.
C28_Isolated ==
    [][\A e \in Running : \A f \in Running \ {e} :
          environments'[e].queue # environments[e].queue => View(f)' = View(f)]_vars

\* Two environments, each with the account A1: the one of e1 was dealt 1000 and e1
\* is at block 1; the one of e2 has nothing and e2 is at block 0.
C28_Witness ==
    /\ Running = Envs
    /\ View("e1").db["A1"].balance = 1000
    /\ View("e1").block_number = 1
    /\ View("e2").db["A1"].exists
    /\ View("e2").db["A1"].balance = 0
    /\ View("e2").block_number = 0
    /\ View("e2").outcomes = <<Ok(0, "AddAccountCompleted", <<>>)>>

\* The worker's ReceiptData for the k-th transaction committed in the block.
ReceiptDataOf(k) ==
    [block_number |-> convert_uint_to_u64(block_number).val,
     transaction_index |-> k - 1,
     cumulative_gas_per_block |-> Sum(SubSeq(blockGas, 1, k))]

\* C29: the receipt that send_transaction makes for a completed transaction has
\* status 1, from the address of the client, the block number, transaction index
\* and cumulative gas of the worker's ReceiptData for that transaction, and for a
\* transaction to an address that address as `to` and no contract address, for a
\* deploy no `to` and the created address as contract address.
C29_Receipt ==
    got.task \in {"t1", "t2"} =>
        LET wallet == AddressOf(ClientOf(got.task))
            tx_env == SentBy(got.task, "Success")
            sent == send_transaction(wallet, tx_env, got.outcome)
        IN  sent.kind = "Ok" =>
              /\ sent.receipt.status = Some(1)
              /\ sent.receipt.from = wallet
              /\ Len(blockGas) >= got.id
              /\ sent.receipt.block_number = Some(ReceiptDataOf(got.id).block_number)
              /\ sent.receipt.transaction_index = ReceiptDataOf(got.id).transaction_index
              /\ sent.receipt.cumulative_gas_used
                    = ReceiptDataOf(got.id).cumulative_gas_per_block
              /\ IF tx_env.transact_to.kind = "Call"
                    THEN /\ sent.receipt.to = Some(tx_env.transact_to.address)
                         /\ sent.receipt.contract_address = None
                    ELSE /\ sent.receipt.to = None
                         /\ sent.receipt.contract_address = Some([created_by |-> wallet])

\* C30: every Transaction whose execution the worker commits is answered with
\* TransactionCompleted and leaves the worker running, whatever the block number
\* that a BlockUpdate set before.
C30_CommittedIsAnswered ==
    (last.kind = "Transaction" /\ last.ins.tx.exec # "Err") =>
        /\ last.outcome.kind = "TransactionCompleted"
        /\ worker = "running"

\* C31: Environment::stop always returns: once it is called (it has sent Stop and
\* waits for the outcome) it eventually has its outcome, drops the sender and joins
\* the worker thread, also when the worker thread had ended before the call.
C31_StopReturns == (env = "stopping") ~> (env = "dropped")

\* The number a big-endian word stands for.
RECURSIVE FromBeBytes(_)
FromBeBytes(w) ==
    IF w = <<>> THEN 0 ELSE 2 * FromBeBytes(SubSeq(w, 1, Len(w) - 1)) + w[Len(w)]

\* C32: get_storage_at(addr, key) returns the value stored at (addr, key) as a
\* big-endian word of full width, the zero word for a slot never written, and for
\* an address without account it returns the error AccountDoesNotExistError to its
\* caller.
C32_GetStorageAt ==
    last.kind = "Load" =>
        LET returned == get_storage_at(last.outcome)
            account == accounts[last.ins.a]
        IN  IF account.exists
               THEN /\ returned.kind = "Ok"
                    /\ Len(returned.value) = U256Bits
                    /\ FromBeBytes(returned.value) = Load(account, last.ins.y)
               ELSE /\ returned.kind = "Err"
                    /\ returned.err = "AccountDoesNotExistError"

\* C33: the gas price of the environment is what the last acknowledged SetGasPrice
\* set: SetGasPrice(p) sets it to p, a GasPrice query answers it, and no other
\* instruction, a Call or a Transaction of any client included, changes it.
C33_GasPriceKept ==
    /\ [][(WorkerTakes /\ Head(queue).kind = "SetGasPrice") =>
             /\ gas_price' = Head(queue).x
             /\ Len(Sent(Head(queue).chan)) = 1
             /\ Sent(Head(queue).chan)[1].kind = "SetGasPriceCompleted"]_vars
    /\ [][(WorkerTakes /\ Head(queue).kind = "GasPrice") =>
             /\ Len(Sent(Head(queue).chan)) = 1
             /\ Sent(Head(queue).chan)[1].val = to_string(gas_price)]_vars
    /\ [][(WorkerTakes /\ Head(queue).kind # "SetGasPrice") => gas_price' = gas_price]_vars

\* C34: while the worker runs, a committed Transaction adds one to transaction_index
\* and its gas_used to cumulative_gas_per_block, a BlockUpdate sets both to zero,
\* and no other instruction (a rejected Transaction, AddAccount, a cheatcode, Call,
\* SetGasPrice, a query, Stop) changes either; a query also leaves the database,
\* the block number, the timestamp and the gas price as they are.
C34_CountersFrame ==
    [][WorkerTakes =>
         LET ins == Head(queue)
             committed == ins.kind = "Transaction" /\ ins.tx.exec # "Err"
         IN  /\ (committed /\ worker' = "running") =>
                   /\ transaction_index' = transaction_index + 1
                   /\ cumulative_gas_per_block' = cumulative_gas_per_block + ins.tx.gas_used
             /\ (ins.kind = "BlockUpdate" /\ worker' = "running") =>
                   /\ transaction_index' = 0
                   /\ cumulative_gas_per_block' = 0
             /\ (~committed /\ ins.kind # "BlockUpdate") =>
                   /\ transaction_index' = transaction_index
                   /\ cumulative_gas_per_block' = cumulative_gas_per_block
             /\ ins.kind \in QueryKinds =>
                   /\ accounts' = accounts
                   /\ block_number' = block_number
                   /\ block_timestamp' = block_timestamp
                   /\ gas_price' = gas_price]_vars

\* Two transactions are committed in the block and a query of a balance has just
\* been answered: the counters are as the transactions left them.
C34_Witness ==
    /\ last.kind = "Balance"
    /\ last.outcome.kind = "QueryReturn"
    /\ transaction_index = 2
    /\ cumulative_gas_per_block = 3

\* C35: a Deal never decreases a balance: Deal(a, x) on an existing account with
\* balance b is answered and leaves the balance b + x, the sum of the numbers and
\* not the sum modulo 2^256, or it is answered with an error and leaves b.
C35_DealAddsUp ==
    [][(WorkerTakes /\ Head(queue).kind = "Deal" /\ accounts[Head(queue).a].exists) =>
         LET ins == Head(queue)
             b == accounts[ins.a].balance
         IN  /\ Len(Sent(ins.chan)) = 1
             /\ \/ /\ Sent(ins.chan)[1].kind = "CheatcodeReturn"
                   /\ accounts'[ins.a].balance = b + ins.x
                \/ /\ Sent(ins.chan)[1].kind = "Error"
                   /\ accounts'[ins.a].balance = b]_vars

C39_ReceiversKept ==
    connection.pc = "open" =>
        /\ \A i, j \in DOMAIN connection.calls :
              connection.calls[i].filter = connection.calls[j].filter =>
                  connection.calls[i].id = connection.calls[j].id
        /\ \A i \in DOMAIN connection.event_broadcaster :
              \E e \in connection.filter_receivers :
                  e.receiver = connection.event_broadcaster[i]

\* C36: Process hands the events of the stream to the processor one at a time in stream
\* order; it stops after the first Halt or at the end of the stream, so that no event
\* after a Halt is processed; on a normal stop the processor is back in the engine; an
\* error of process() is what Process returns.
C36_ProcessLoop ==
    engine.pc # "none" =>
        LET n == Len(engine.processed)
            whole == engine.script.stream
        IN  /\ n <= Len(whole)
            /\ engine.processed = SubSeq(whole, 1, n)
            /\ \A i \in 1 .. n - 1 : engine.processed[i].process = "Continue"
            /\ engine.pc = "processing" =>
                  /\ n > 0 => engine.processed[n].process = "Continue"
                  /\ engine.stream = SubSeq(whole, n + 1, Len(whole))
            /\ engine.process_result = Some("Ok") =>
                  /\ engine.pc = "idle" => engine.processor
                  /\ \/ n > 0 /\ engine.processed[n].process = "Halt"
                     \/ n = Len(whole) /\ \A i \in 1 .. n : whole[i].process = "Continue"
            /\ engine.process_result = Some("Err") =>
                  /\ n > 0 /\ engine.processed[n].process = "Err"
                  /\ ~engine.processor
            /\ (engine.pc = "idle" /\ n > 0 /\ engine.processed[n].process = "Err") =>
                  engine.process_result = Some("Err")

C36_Witness ==
    /\ engine.pc = "idle"
    /\ engine.process_result = Some("Ok")
    /\ Len(engine.script.stream) = 3
    /\ Len(engine.processed) = 2
    /\ engine.processed[2].process = "Halt"
    /\ engine.processor

\* What Start does, whatever becomes of the unwraps: startup runs once for a Start;
\* without a stream Start returns Ok and no event is processed; with a stream Process
\* has run to its end when Start returns, Start returns Ok, and a failure of Process
\* is logged.
StartContract ==
    engine.pc # "none" =>
        /\ engine.startups <= 1
        /\ (engine.returned # <<>> \/ engine.pc = "processing") => engine.startups = 1
        /\ (engine.returned # <<>> /\ engine.script.startup = "Ok"
               /\ engine.script.get_stream = "None") =>
              /\ engine.returned[1] = [instruction |-> "Start", result |-> "Ok"]
              /\ engine.processed = <<>>
        /\ (engine.returned # <<>> /\ engine.script.startup = "Ok"
               /\ engine.script.get_stream = "Some") =>
              /\ engine.returned[1] = [instruction |-> "Start", result |-> "Ok"]
              /\ engine.process_result # None
              /\ engine.logged <=> engine.process_result = Some("Err")

\* C37: Start runs startup once and then Process to its end if the processor has a
\* stream, returning Ok also when Process failed; and no unwrap of execute fails,
\* whatever Start and Process instructions the engine receives.
C37_StartAndUnwraps ==
    /\ StartContract
    /\ engine.pc # "panicked"

\* A step of process sends one send_data for an event with receive_data and nothing
\* for any other event, and a behavior whose count is max_count after the step has
\* halted.
OneReplyEach ==
    [][\A a \in Agents :
          (world.pc = "running" /\ world'.pc = "running"
              /\ world.agents[a].state = "running"
              /\ world'.agents[a].next = world.agents[a].next + 1) =>
             LET behavior == world.agents[a]
                 event == world.messages[behavior.next]
             IN  /\ IF event.data = behavior.receive_data
                       THEN /\ world'.messages =
                                  Append(world.messages,
                                         [from |-> a, data |-> behavior.send_data])
                            /\ world'.agents[a].count = behavior.count + 1
                       ELSE /\ world'.messages = world.messages
                            /\ world'.agents[a].count = behavior.count
                 /\ (behavior.max_count # None
                        /\ world'.agents[a].count = behavior.max_count.val) =>
                       world'.agents[a].state = "halted"]_vars

\* The messages of a, its startup message apart.
RepliesOf(a) ==
    Len(SelectSeq(world.messages, LAMBDA m : m.from = a))
        - (IF world.agents[a].startup_message # None /\ world.agents[a].state # "new"
              THEN 1 ELSE 0)

\* A behavior with max_count n has sent no more than n replies.
AtMostMaxCount ==
    world.pc # "none" =>
        \A a \in Agents :
            world.agents[a].max_count # None => RepliesOf(a) <= world.agents[a].max_count.val

\* The two agents of ping_pong_two_agent both halt, and the outside world then takes 5
\* messages, no more.
PingPongEnds ==
    /\ (world.pc = "running" /\ \A a \in Agents : world.agents[a] = PingPong[a])
          => <>(world.pc = "ran" /\ world.idx = 5)
    /\ [](world.pc # "none" =>
             ((\A a \in Agents :
                  /\ world.agents[a].receive_data = PingPong[a].receive_data
                  /\ world.agents[a].send_data = PingPong[a].send_data
                  /\ world.agents[a].max_count = PingPong[a].max_count
                  /\ world.agents[a].startup_message = PingPong[a].startup_message)
                 => Len(world.messages) <= 5 /\ world.idx <= 5))

\* C38: a TimedMessage with max_count n sends one reply for each event with
\* receive_data, halts as soon as its count is n and so never sends more than n
\* replies besides its startup message; the two agents of ping/pong with n = 2 both
\* halt and the outside world sees 5 messages.
C38_TimedMessage ==
    /\ OneReplyEach
    /\ []AtMostMaxCount
    /\ PingPongEnds

====
